---- MODULE Spec2Model ----
(***************************************************************************)
(* A model of the data plane of kafka-postgres-transform:                  *)
(*   - the file pipeline's fan-out (src/file.rs, process_file),            *)
(*   - the AIMD batcher (src/aimd_stream.rs, adaptive_batch),              *)
(*   - the database writer (src/postgres.rs, insert_data) and one cell of  *)
(*     its coercion match,                                                 *)
(*   - the file pipeline from the reader task to the result of             *)
(*     process_file (src/file.rs),                                         *)
(*   - the script runtime pool (spec 4.5),                                 *)
(*   - the broker consume loop (src/kafka.rs, consume_messages) and the    *)
(*     broker payload decoder (src/protobuf.rs, decode_dynamic_message),   *)
(*   - the frame reader (src/file.rs, read_pool_and_messages),             *)
(*   - the batch transform (src/deno.rs, transform_messages_batch).        *)
(* Each component has its own specifications (SpecPartition, SpecBatcher,  *)
(* SpecUnderTarget, SpecInsert, SpecInsertConc, SpecInsertThreads,         *)
(* SpecCoerce, SpecFile, FairSpecFile, SpecFileCancel, SpecPool,           *)
(* SpecPoolPanic, SpecPoolShutdown, SpecKafka, SpecDecode, SpecFrame,      *)
(* SpecTransform); a specification leaves the variables of the other       *)
(* components at their idle values.                                        *)
(***************************************************************************)
EXTENDS Integers, Sequences, FiniteSets, TLC

VARIABLES
    \* ---- fan-out (file.rs:30-62)
    messages,        \* the records the frame reader has still to yield
    hasher,          \* state of `hasher` (file.rs:46)
    pending,         \* the record the reader task is sending, with its partition
    chan,            \* contents of the bounded channel of each partition
    received,        \* what each partition's consumer has taken, in order
    success_count,   \* file.rs:45
    rpc,             \* position of the spawned reader task
    \* ---- batcher (aimd_stream.rs:26-60)
    params,          \* initial_batch_size, min_batch_size, max_batch_size
    source,          \* everything the upstream stream yields, from its start
    upstream,        \* items the upstream stream has still to yield
    batch_size,      \* aimd_stream.rs:26
    batch,           \* aimd_stream.rs:29
    start_size,      \* batch_size when collection of `batch` started
    processing_time, \* aimd_stream.rs:46, of the batch yielded last
    out,             \* the batches yielded so far
    sizes,           \* for each yielded batch, batch_size when its collection started
    prev_size,       \* batch_size just before the adaptation of the batch yielded last
    bpc,             \* position of the generator
    timer,           \* aimd_stream.rs:30, 46: the time since start_time was taken
    collecting,      \* the time the awaits of the current collection took
    requested,       \* the consumer has polled for the next batch
    downstream,      \* what the consumer did with the batch yielded last
    wait_times,      \* what one await of the upstream can take
    \* ---- database writer (postgres.rs:78-234)
    iarg,            \* per call: the TransformResult passed to insert_data
    ipc,             \* per call: position in insert_data
    iresult,         \* per call: what insert_data returned
    column_data,     \* per call: postgres.rs:108, the column buffers built
    connection,      \* per call: the pooled connection held (postgres.rs:200)
    statement,       \* per call: the statement to execute (postgres.rs:206)
    effects,         \* per call: the database and cache operations performed
    query_cache,     \* Pool.query_cache: cache key -> statement
    idle_conns,      \* Pool.db: the connections not handed out
    executed,        \* per call: the statement execution the call asked for
    calls_made,      \* per caller: the number of insert_data calls started
    entry_lock,      \* per call: the cache key whose map entry the call holds locked
    prepare_log,     \* the cache keys of the statements prepared, in order
    workload,        \* which results the callers pass to insert_data
    worker_threads,  \* main.rs:73: the worker threads of the runtime
    \* ---- one cell of the coercion match (postgres.rs:119-139)
    co_type,         \* the declared type of the column
    co_value,        \* the JSON value of the row at that column
    co_result,       \* what the match made of the pair
    co_pc,           \* whether the match has run
    \* ---- the file pipeline downstream of the channels (file.rs:64-89)
    reader_error,    \* the error that ended the reader task or its stream
    batched,         \* per partition: how many received records are in batches
    inflight,        \* per partition: the execute futures and their submissions
    f_submitted,     \* per partition: the batches passed to js_pool.execute
    f_executed,      \* per partition: the batches whose script run has ended
    f_inserted,      \* per partition: the batches insert_data has written
    insert_job,      \* the insert_data future of the outer and_then (file.rs:85)
    f_acc,           \* file.rs:86, the accumulator `acc` of try_fold
    fpc,             \* position of process_file
    fresult,         \* what process_file returned
    \* ---- the script runtime pool (spec 4.5; js_pool of file.rs:35, 75)
    calls,           \* the number of execute calls made so far
    submission,      \* per call: the batch passed to execute and the worker chosen
    futures,         \* per call: the state of the future execute returned
    replies,         \* per call: what the future resolved to
    mailbox,         \* per worker: the queued submissions, oldest first
    running,         \* per worker: the submission whose script run is in progress
    holder,          \* per worker: the call that holds the worker's mailbox
    rr_counter,      \* the shared round-robin counter
    discarded,       \* the submissions whose result the worker threw away
    dropped_running, \* the calls whose future was dropped during their script run
    dead,            \* the workers whose thread has panicked
    shutdown_pc,     \* where the pool's shutdown is: "open", "sending", "joining", "returned"
    sentinel_sent,   \* the workers the Shutdown sentinel was sent to
    stopped,         \* the workers whose thread has left its loop
    joined,          \* the workers whose thread shutdown has joined
    \* ---- the broker consume loop (kafka.rs:65-105)
    broker,          \* what consumer.recv() has still to return, in order
    msg,             \* the message the loop is handling
    kpc,             \* position of consume_messages
    handled,         \* the messages whose processing has ended, with the outcome
    commits,         \* the offsets passed to a commit_message that returned Ok
    \* ---- the broker payload decoder (protobuf.rs:147-161)
    payload,         \* the bytes of the broker message
    message_bytes,   \* the bytes handed to DynamicMessage::decode
    dpc,             \* whether decode_dynamic_message has run
    \* ---- the frame reader (file.rs:91-203)
    file_records,    \* the (key, payload) records the file was written from
    cut,             \* the number of bytes of the written stream that exist
    reader,          \* the bytes the reader has still to read
    num_messages,    \* the record count read from the header
    frames,          \* the (key, message) pairs the stream has yielded
    frpc,            \* "closed", "reading", "ended" or "failed"
    frame_error,     \* the error the reader failed with
    \* ---- transform_messages_batch (deno.rs:87-157)
    t_messages,      \* the messages passed to transform_messages_batch
    js_results,      \* the script's `results` array
    js_i,            \* the script's loop index
    script_runs,     \* how many times execute_script was called
    t_return,        \* what transform_messages_batch returned
    tpc              \* "called", "script" or "returned"

partVars == <<messages, hasher, pending, chan, received, success_count, rpc>>
batchVars == <<params, source, upstream, batch_size, batch, start_size, processing_time,
               out, sizes, prev_size, bpc, timer, collecting, requested, downstream,
               wait_times>>
insertVars == <<iarg, ipc, iresult, column_data, connection, statement, effects,
                query_cache, idle_conns, executed, calls_made, entry_lock, prepare_log,
                workload, worker_threads>>
coerceVars == <<co_type, co_value, co_result, co_pc>>
fileVars == <<reader_error, batched, inflight, f_submitted, f_executed, f_inserted,
              insert_job, f_acc, fpc, fresult>>
shutdownVars == <<shutdown_pc, sentinel_sent, stopped, joined>>
poolVars == <<calls, submission, futures, replies, mailbox, running, holder, rr_counter,
              discarded, dropped_running, dead, shutdownVars>>
kafkaVars == <<broker, msg, kpc, handled, commits>>
decodeVars == <<payload, message_bytes, dpc>>
frameVars == <<file_records, cut, reader, num_messages, frames, frpc, frame_error>>
transformVars == <<t_messages, js_results, js_i, script_runs, t_return, tpc>>
vars == <<partVars, batchVars, insertVars, coerceVars, fileVars, poolVars, kafkaVars,
          decodeVars, frameVars, transformVars>>

\* What a step of one component leaves alone: the other components.
PartFrame ==
    UNCHANGED <<batchVars, insertVars, coerceVars, fileVars, poolVars, kafkaVars, decodeVars, frameVars, transformVars>>
BatchFrame ==
    UNCHANGED <<partVars, insertVars, coerceVars, fileVars, poolVars, kafkaVars, decodeVars, frameVars, transformVars>>
InsertFrame ==
    UNCHANGED <<partVars, batchVars, coerceVars, fileVars, poolVars, kafkaVars, decodeVars, frameVars, transformVars>>
CoerceFrame ==
    UNCHANGED <<partVars, batchVars, insertVars, fileVars, poolVars, kafkaVars, decodeVars, frameVars, transformVars>>
FileFrame ==
    UNCHANGED <<batchVars, insertVars, coerceVars, poolVars, kafkaVars, decodeVars, frameVars, transformVars>>
FrameFrame ==
    UNCHANGED <<partVars, batchVars, insertVars, coerceVars, fileVars, poolVars, kafkaVars, decodeVars, transformVars>>
TransformFrame ==
    UNCHANGED <<partVars, batchVars, insertVars, coerceVars, fileVars, poolVars, kafkaVars, frameVars, decodeVars>>
DecodeFrame ==
    UNCHANGED <<partVars, batchVars, insertVars, coerceVars, fileVars, poolVars, kafkaVars, frameVars, transformVars>>
KafkaFrame ==
    UNCHANGED <<partVars, batchVars, insertVars, coerceVars, fileVars, poolVars, decodeVars, frameVars, transformVars>>
PoolFrame ==
    UNCHANGED <<partVars, batchVars, insertVars, coerceVars, fileVars, kafkaVars, decodeVars, frameVars, transformVars>>

Min(a, b) == IF a <= b THEN a ELSE b
Max(a, b) == IF a >= b THEN a ELSE b

RECURSIVE Flatten(_)
Flatten(ss) == IF ss = <<>> THEN <<>> ELSE Head(ss) \o Flatten(Tail(ss))

RECURSIVE SeqsUpTo(_, _)
\* all sequences over S of length at most n
SeqsUpTo(S, n) ==
    IF n = 0 THEN {<<>>}
    ELSE LET shorter == SeqsUpTo(S, n - 1)
         IN  shorter \cup {Append(s, x) : s \in {t \in shorter : Len(t) = n - 1}, x \in S}

(***************************************************************************)
(*                      FAN-OUT  (file.rs, process_file)                   *)
(***************************************************************************)

\* Bounds of the fan-out model.
MaxRecords == 4
num_partitions == 2
\* tokio::sync::mpsc::channel(1000), scaled down so that a full channel is reached.
ChannelCapacity == 2

Partitions == 0 .. (num_partitions - 1)

\* Record keys as UTF-8 byte strings: "a" and "b".
Keys == {<<97>>, <<98>>}

\* FxHasher works on a 64-bit word; the model keeps its structure
\* (rotate, xor, multiply by an odd seed, wrapping) on a word of HashBits bits.
HashBits == 8
HashMod == 2 ^ HashBits
HashSeed == 149
HashRotate == 5

RECURSIVE BitXor(_, _)
BitXor(a, b) ==
    IF a = 0 THEN b
    ELSE IF b = 0 THEN a
    ELSE (((a % 2) + (b % 2)) % 2) + (2 * BitXor(a \div 2, b \div 2))

rotate_left(h, r) ==
    ((h * (2 ^ r)) % HashMod) + (h \div (2 ^ (HashBits - r)))

\* FxHasher::add_to_hash
add_to_hash(h, i) == (BitXor(rotate_left(h, HashRotate), i % HashMod) * HashSeed) % HashMod

RECURSIVE write(_, _)
\* Hasher::write: feeds the bytes into the running state
write(h, bytes) ==
    IF bytes = <<>> THEN h ELSE write(add_to_hash(h, Head(bytes)), Tail(bytes))

\* <str as Hash>::hash: the bytes, then the 0xff terminator
hash_str(h, key) == add_to_hash(write(h, key), 255)

\* Hasher::finish
finish(h) == h

\* FxHasher::default()
DefaultHasher == 0

\* file.rs:49-50: the key is hashed into the one hasher created before the loop
HasherAfter(h, key) == hash_str(h, key)

PartitionOf(h) == finish(h) % num_partitions

NoPending == [partition |-> -1, id |-> 0, key |-> <<>>]

\* The records of a file: record i carries key ks[i].
FileRecords(ks) == [i \in 1 .. Len(ks) |-> [id |-> i, key |-> ks[i]]]

PartInit ==
    /\ messages \in {FileRecords(ks) : ks \in SeqsUpTo(Keys, MaxRecords)}
    /\ hasher = DefaultHasher
    /\ pending = NoPending
    /\ chan = [p \in Partitions |-> <<>>]
    /\ received = [p \in Partitions |-> <<>>]
    /\ success_count = 0
    /\ rpc = "read"

PartIdle ==
    /\ messages = <<>>
    /\ hasher = DefaultHasher
    /\ pending = NoPending
    /\ chan = [p \in Partitions |-> <<>>]
    /\ received = [p \in Partitions |-> <<>>]
    /\ success_count = 0
    /\ rpc = "done"

\* The downstream of the channels is left out.
FileIdle ==
    /\ reader_error = "none"
    /\ batched = [p \in Partitions |-> 0]
    /\ inflight = [p \in Partitions |-> <<>>]
    /\ f_submitted = [p \in Partitions |-> <<>>]
    /\ f_executed = [p \in Partitions |-> <<>>]
    /\ f_inserted = [p \in Partitions |-> <<>>]
    /\ insert_job = <<>>
    /\ f_acc = 0
    /\ fpc = "off"
    /\ fresult = <<>>

\* (mutant) an unbounded channel: send never waits
ChannelAlwaysHasCapacity(q) == TRUE

\* Sender::send completes only when the channel has a free slot
ChannelHasCapacity(q) == Len(q) < ChannelCapacity

\* (mutant) the receivers outlive the orchestrator
ReceiverNeverCloses == TRUE

\* The receivers live until process_file returns or its future is dropped,
\* which drops the streams.
ReceiverOpen == fpc \notin {"returned", "dropped"}

\* (mutant) a partition's stream takes the next batch while an execute
\* future is pending
StreamAlwaysIdle(p) == TRUE

\* file.rs:74-77: and_then polls the batcher only when it holds no future
StreamIdle(p) == inflight[p] = <<>>

\* (mutant) the receivers are polled whatever the orchestrator waits for
ConsumerPollsFreely(p) == fpc \in {"off", "running"}

\* file.rs:82-87: a partition's receiver is polled through select_all, and
\* only while the outer and_then holds no insert_data future; with the
\* downstream left out, it is polled freely.
ConsumerPolls(p) ==
    \/ fpc = "off"
    \/ fpc = "running" /\ insert_job = <<>> /\ StreamIdle(p)

\* file.rs:48-50: take the next record, hash its key, pick the partition
ReaderNext ==
    /\ rpc = "read"
    /\ messages # <<>>
    /\ LET m == Head(messages)
           h == HasherAfter(hasher, m.key)
       IN  /\ hasher' = h
           /\ pending' = [partition |-> PartitionOf(h), id |-> m.id, key |-> m.key]
    /\ messages' = Tail(messages)
    /\ rpc' = "send"
    /\ UNCHANGED <<chan, received, success_count>>
    /\ PartFrame

\* (mutant) try_send instead of send: with the channel full the record is
\* dropped and the loop goes on
ReaderSendOrDrop ==
    /\ rpc = "send"
    /\ ReceiverOpen
    /\ chan' = IF ChannelHasCapacity(chan[pending.partition])
               THEN [chan EXCEPT ![pending.partition] =
                        Append(@, [id |-> pending.id, key |-> pending.key])]
               ELSE chan
    /\ success_count' = success_count + 1
    /\ pending' = NoPending
    /\ rpc' = "read"
    /\ UNCHANGED <<messages, hasher, received>>
    /\ PartFrame

\* file.rs:52-53: txs[partition].send(message).await, then count it
ReaderSend ==
    /\ rpc = "send"
    /\ ReceiverOpen
    /\ ChannelHasCapacity(chan[pending.partition])
    /\ chan' = [chan EXCEPT ![pending.partition] =
                    Append(@, [id |-> pending.id, key |-> pending.key])]
    /\ success_count' = success_count + 1
    /\ pending' = NoPending
    /\ rpc' = "read"
    /\ UNCHANGED <<messages, hasher, received>>
    /\ PartFrame

\* (mutant) the task ends its loop but keeps txs alive
ReaderKeepsSenders ==
    /\ rpc = "read"
    /\ messages = <<>>
    /\ rpc' = "parked"
    /\ UNCHANGED <<messages, hasher, pending, chan, received, success_count>>
    /\ PartFrame

\* file.rs:48, 56-61: the stream ended; the task returns and drops txs
ReaderEnd ==
    /\ rpc = "read"
    /\ messages = <<>>
    /\ rpc' = "done"
    /\ UNCHANGED <<messages, hasher, pending, chan, received, success_count>>
    /\ PartFrame

\* file.rs:64: the ReceiverStream of partition p yields the oldest record
ConsumerRecv(p) ==
    /\ ConsumerPolls(p)
    /\ chan[p] # <<>>
    /\ received' = [received EXCEPT ![p] = Append(@, Head(chan[p]))]
    /\ chan' = [chan EXCEPT ![p] = Tail(@)]
    /\ UNCHANGED <<messages, hasher, pending, success_count, rpc>>
    /\ PartFrame

PartNext ==
    \/ ReaderNext
    \/ ReaderSend
    \/ ReaderEnd
    \/ \E p \in Partitions : ConsumerRecv(p)

(***************************************************************************)
(*                         PROPERTIES OF THE FAN-OUT                       *)
(***************************************************************************)

\* The records sent to partition p so far, in the order they were sent.
SentTo(p) == received[p] \o chan[p]

\* C1: the partition a record is sent to is a function of its key alone: any
\* two records with identical key bytes are sent to the same partition
\* channel, whatever records were routed before them.
C1_KeyDeterminesPartition ==
    \A p, q \in Partitions :
        \A i \in DOMAIN SentTo(p), j \in DOMAIN SentTo(q) :
            SentTo(p)[i].key = SentTo(q)[j].key => p = q

\* C2: two records with the same key routed in the order r1, r2 both arrive
\* in one partition channel, and once that partition's consumer has received
\* r2 it has received r1 before it.
C2_SameKeyOrderPreserved ==
    \A p, q \in Partitions :
        \A i \in DOMAIN SentTo(p), j \in DOMAIN SentTo(q) :
            LET r1 == SentTo(p)[i]
                r2 == SentTo(q)[j]
            IN  (r1.key = r2.key /\ r1.id < r2.id) =>
                    /\ p = q
                    /\ i < j
                    /\ (j <= Len(received[q]) => i <= Len(received[p]))

\* The reader task is suspended in send: the channel of its record is full.
ReaderBlocked == rpc = "send" /\ Len(chan[pending.partition]) >= ChannelCapacity

\* C8: a partition channel never holds more than its capacity; while the
\* reader is suspended on a full channel it stays suspended until that
\* partition's consumer takes a record, and meanwhile no record is added to
\* any partition's channel.
C8_BoundedChannelsBackpressure ==
    /\ [](\A p \in Partitions : Len(chan[p]) <= ChannelCapacity)
    /\ [][ReaderBlocked =>
            /\ \A p \in Partitions : Len(chan'[p]) <= Len(chan[p])
            /\ messages' = messages
            /\ success_count' = success_count
            /\ (rpc' = "send" /\ pending' = pending)
            /\ (~ReaderBlocked' =>
                    Len(received'[pending.partition]) = Len(received[pending.partition]) + 1)
          ]_vars

\* The reader is suspended on a full channel while another channel has room.
C8_Witness ==
    /\ ReaderBlocked
    /\ \E p \in Partitions : p # pending.partition /\ Len(chan[p]) < ChannelCapacity

\* The ids of the records in the sequence s.
IdsOf(s) == {s[i].id : i \in DOMAIN s}

\* The records sent so far, partition after partition.
AllSent == Flatten([p \in 1 .. num_partitions |-> SentTo(p - 1)])

\* The records received so far by all consumers.
AllReceived == Flatten([p \in 1 .. num_partitions |-> received[p - 1]])

\* The record the reader holds between reading and sending it.
Held == IF pending = NoPending THEN {} ELSE {pending.id}

MaxItems == 6
MaxBatchSize == 3

\* Duration::from_millis(100) at the call site
target_processing_time == 100

\* What one await of stream.next(), or the consumer's work on one batch, can
\* take: no time, the target, more than the target.
ElapsedTimes == {0, target_processing_time, target_processing_time + 1}

\* Instant arithmetic; every time over the target is kept as target + 1
Elapse(t, d) == Min(t + d, target_processing_time + 1)

\* The consumer's work on a batch: how long it took and whether it succeeded.
NoDownstream == [time |-> 0, ok |-> TRUE]
Downstreams == [time : ElapsedTimes, ok : BOOLEAN]

\* (mutant) the timer runs on from the batch before
TimerKeepsRunning(t) == t

\* aimd_stream.rs:30: start_time = Instant::now()
StartTimer(t) == 0

\* The parameters the batcher is created with; like both call sites
\* (100, 1, 1000 and 2, 1, 5) they satisfy 1 <= min <= initial <= max.
BatcherParams ==
    {[initial |-> i, min |-> lo, max |-> hi] :
        i \in 1 .. MaxBatchSize, lo \in 1 .. MaxBatchSize, hi \in 1 .. MaxBatchSize}

ValidParams(pr) == 1 <= pr.min /\ pr.min <= pr.initial /\ pr.initial <= pr.max

\* The items of a finite upstream of k items.
Items(k) == [i \in 1 .. k |-> i]

BatchInit ==
    /\ params \in {pr \in BatcherParams : ValidParams(pr)}
    /\ source \in {Items(k) : k \in 0 .. MaxItems}
    /\ upstream = source
    /\ batch_size = params.initial
    /\ batch = <<>>
    /\ start_size = params.initial
    /\ processing_time = 0
    /\ out = <<>>
    /\ sizes = <<>>
    /\ prev_size = params.initial
    /\ bpc = "loop"
    /\ timer = 0
    /\ collecting = 0
    /\ requested = TRUE
    /\ downstream = NoDownstream
    /\ wait_times = ElapsedTimes

BatchIdle ==
    /\ params = [initial |-> 1, min |-> 1, max |-> 1]
    /\ source = <<>>
    /\ upstream = <<>>
    /\ batch_size = 1
    /\ batch = <<>>
    /\ start_size = 1
    /\ processing_time = 0
    /\ out = <<>>
    /\ sizes = <<>>
    /\ prev_size = 1
    /\ bpc = "done"
    /\ timer = 0
    /\ collecting = 0
    /\ requested = TRUE
    /\ downstream = NoDownstream
    /\ wait_times = {}

\* (mutant) equality with the target counts as too slow
AimdStepStrict(s, elapsed, pr) ==
    IF elapsed < target_processing_time
    THEN Min(s + 1, pr.max)
    ELSE Max(s \div 2, pr.min)

\* (mutant) the halving is not stopped at min_batch_size
AimdStepNoFloor(s, elapsed, pr) ==
    IF elapsed <= target_processing_time
    THEN Min(s + 1, pr.max)
    ELSE s \div 2

\* (mutant) the increase is not stopped at max_batch_size
AimdStepNoCeiling(s, elapsed, pr) ==
    IF elapsed <= target_processing_time
    THEN s + 1
    ELSE Max(s \div 2, pr.min)

\* aimd_stream.rs:49-57: one adaptation of the batch size
AimdStep(s, elapsed, pr) ==
    IF elapsed <= target_processing_time
    THEN Min(s + 1, pr.max)
    ELSE Max(s \div 2, pr.min)

\* aimd_stream.rs:28-30: a new batch, the timer starts
BatchStart ==
    /\ bpc = "loop"
    /\ requested
    /\ batch' = <<>>
    /\ start_size' = batch_size
    /\ timer' = StartTimer(timer)
    /\ collecting' = 0
    /\ bpc' = "collect"
    /\ UNCHANGED <<params, source, upstream, batch_size, processing_time, out, sizes, prev_size,
                   requested, downstream, wait_times>>
    /\ BatchFrame

\* aimd_stream.rs:33-35: stream.next() yields Some(item)
CollectItem ==
    /\ bpc = "collect"
    /\ Len(batch) < batch_size
    /\ upstream # <<>>
    /\ batch' = Append(batch, Head(upstream))
    /\ upstream' = Tail(upstream)
    /\ \E d \in wait_times :
          /\ timer' = Elapse(timer, d)
          /\ collecting' = Elapse(collecting, d)
    /\ UNCHANGED <<params, source, batch_size, start_size, processing_time, out, sizes,
                   prev_size, bpc, requested, downstream, wait_times>>
    /\ BatchFrame

\* (mutant) the end of the upstream with an empty batch starts a new batch
StreamEndEmptyLoops ==
    /\ bpc = "collect"
    /\ Len(batch) < batch_size
    /\ upstream = <<>>
    /\ batch = <<>>
    /\ bpc' = "loop"
    /\ UNCHANGED <<params, source, upstream, batch_size, batch, start_size,
                   processing_time, out, sizes, prev_size, timer, collecting, requested,
                   downstream, wait_times>>
    /\ BatchFrame

\* aimd_stream.rs:36: stream.next() yields None and the batch is empty: return
StreamEndEmpty ==
    /\ bpc = "collect"
    /\ Len(batch) < batch_size
    /\ upstream = <<>>
    /\ batch = <<>>
    /\ bpc' = "done"
    /\ UNCHANGED <<params, source, upstream, batch_size, batch, start_size, processing_time,
                   out, sizes, prev_size, timer, collecting, requested, downstream,
                   wait_times>>
    /\ BatchFrame

\* (mutant) the end of the upstream returns whatever was collected
StreamEndPartialDropsBatch ==
    /\ bpc = "collect"
    /\ Len(batch) < batch_size
    /\ upstream = <<>>
    /\ batch # <<>>
    /\ batch' = <<>>
    /\ bpc' = "done"
    /\ UNCHANGED <<params, source, upstream, batch_size, start_size, processing_time,
                   out, sizes, prev_size, timer, collecting, requested, downstream,
                   wait_times>>
    /\ BatchFrame

\* aimd_stream.rs:37: stream.next() yields None with items collected: break
StreamEndPartial ==
    /\ bpc = "collect"
    /\ Len(batch) < batch_size
    /\ upstream = <<>>
    /\ batch # <<>>
    /\ bpc' = "collected"
    /\ \E d \in wait_times :
          /\ timer' = Elapse(timer, d)
          /\ collecting' = Elapse(collecting, d)
    /\ UNCHANGED <<params, source, upstream, batch_size, batch, start_size, processing_time,
                   out, sizes, prev_size, requested, downstream, wait_times>>
    /\ BatchFrame

\* aimd_stream.rs:33: the batch is full, the while loop ends
BatchFull ==
    /\ bpc = "collect"
    /\ Len(batch) >= batch_size
    /\ bpc' = "collected"
    /\ UNCHANGED <<params, source, upstream, batch_size, batch, start_size, processing_time,
                   out, sizes, prev_size, timer, collecting, requested, downstream,
                   wait_times>>
    /\ BatchFrame

\* aimd_stream.rs:41-59: an empty batch ends the stream; otherwise measure the
\* time, adapt the batch size and yield the batch
AdaptAndYield ==
    /\ bpc = "collected"
    /\ IF batch = <<>>
       THEN /\ bpc' = "done"
            /\ UNCHANGED <<batch_size, batch, processing_time, out, sizes, prev_size,
                           requested>>
       ELSE /\ processing_time' = timer
            /\ prev_size' = batch_size
            /\ batch_size' = AimdStep(batch_size, timer, params)
            /\ out' = Append(out, batch)
            /\ sizes' = Append(sizes, start_size)
            /\ batch' = <<>>
            /\ requested' = FALSE
            /\ bpc' = "loop"
    /\ UNCHANGED <<params, source, upstream, start_size, timer, collecting, downstream,
                   wait_times>>
    /\ BatchFrame

\* aimd_stream.rs:59: the generator is suspended at `yield batch` while the
\* consumer works on the batch; it resumes when the consumer polls again
ConsumerHandlesBatch ==
    /\ bpc = "loop"
    /\ ~requested
    /\ \E d \in Downstreams :
          /\ downstream' = d
          /\ timer' = Elapse(timer, d.time)
    /\ requested' = TRUE
    /\ UNCHANGED <<params, source, upstream, batch_size, batch, start_size, processing_time,
                   out, sizes, prev_size, bpc, collecting, wait_times>>
    /\ BatchFrame

BatchNext ==
    \/ BatchStart
    \/ CollectItem
    \/ StreamEndEmpty
    \/ StreamEndPartial
    \/ BatchFull
    \/ AdaptAndYield
    \/ ConsumerHandlesBatch

(***************************************************************************)
(*                         PROPERTIES OF THE BATCHER                       *)
(***************************************************************************)

C4_AimdDynamics ==
    [][ /\ (Len(out') = Len(out) + 1 =>
              batch_size' =
                IF processing_time' <= target_processing_time
                THEN (IF batch_size + 1 <= params.max THEN batch_size + 1 ELSE params.max)
                ELSE (IF batch_size \div 2 >= params.min
                      THEN batch_size \div 2 ELSE params.min))
        /\ (Len(out') = Len(out) => batch_size' = batch_size)
      ]_vars

\* A collection that took exactly the target time increased the size by one.
C4_Witness ==
    /\ out # <<>>
    /\ bpc = "loop"
    /\ processing_time = target_processing_time
    /\ batch_size = prev_size + 1

ClosedWithNothing ==
    bpc = "collect" /\ upstream = <<>> /\ batch = <<>> /\ Len(batch) < batch_size

\* The upstream has closed with a partial batch collected.
ClosedWithPartial ==
    /\ bpc \in {"collect", "collected"}
    /\ upstream = <<>>
    /\ batch # <<>>
    /\ Len(batch) < batch_size

\* C7: the output stream of a finite upstream ends; when the upstream closes
\* with nothing collected the stream ends without yielding a batch; when it
\* closes with a partial batch collected that batch is yielded, once, and
\* nothing is yielded after it.
C7_BatcherTerminates ==
    /\ <>(bpc = "done")
    /\ [][ /\ (ClosedWithNothing => (bpc' = "done" /\ out' = out))
           /\ (ClosedWithPartial =>
                 \/ (bpc' = "collected" /\ out' = out /\ batch' = batch)
                 \/ (bpc' = "loop" /\ out' = Append(out, batch)))
           /\ ((upstream = <<>> /\ batch = <<>>) => out' = out)
           /\ (bpc = "done" => bpc' = "done")
         ]_vars

\* The stream ended right after yielding a partial batch.
C7_Witness ==
    /\ bpc = "done"
    /\ out # <<>>
    /\ Len(out[Len(out)]) < sizes[Len(out)]

(***************************************************************************)
(*                 DATABASE WRITER  (postgres.rs, insert_data)             *)
(***************************************************************************)

\* Bounds of the writer model.
MaxRows == 2
NumConnections == 2

\* Option<T>: None is the empty sequence, Some(x) the one-element sequence.
None == <<>>
Some(x) == <<x>>
IsSome(o) == o # <<>>
Unwrap(o) == o[1]

\* serde_json::Value, as far as insert_data looks at it.
JNull == [kind |-> "Null", n |-> 0, s |-> ""]
JBool(b) == [kind |-> "Bool", n |-> IF b THEN 1 ELSE 0, s |-> ""]
JPosInt(n) == [kind |-> "PosInt", n |-> n, s |-> ""]
JNegInt(n) == [kind |-> "NegInt", n |-> n, s |-> ""]
JFloat(repr) == [kind |-> "Float", n |-> 0, s |-> repr]
JString(str) == [kind |-> "String", n |-> 0, s |-> str]

IsNumber(v) == v.kind \in {"PosInt", "NegInt", "Float"}

\* A serde_json number is PosInt(u64), NegInt(i64, negative) or Float(f64);
\* the model's i64 has I64Bits bits and its u64 as many.
I64Bits == 16
I64Max == 2 ^ (I64Bits - 1) - 1
U64Max == 2 ^ I64Bits - 1

\* Number::is_i64: a PosInt only when it is at most i64::MAX; Number::is_f64
is_i64(v) == v.kind = "NegInt" \/ (v.kind = "PosInt" /\ v.n <= I64Max)
is_f64(v) == v.kind = "Float"

\* `as i32` keeps the low bits of the integer, read as a signed number; the
\* model's i32 has I32Bits bits.
I32Bits == 8
as_i32(n) == ((n + 2 ^ (I32Bits - 1)) % (2 ^ I32Bits)) - 2 ^ (I32Bits - 1)

\* Number::to_string
NumberToString(v) == IF v.kind = "Float" THEN v.s ELSE ToString(v.n)

\* The rows a script returns: objects over the column names "id" and "name".
Rows ==
    {[id |-> JPosInt(7), name |-> JString("x")],
     [id |-> JPosInt(8), name |-> JPosInt(7)],
     [id |-> JFloat("1.5"), name |-> JNull]}
    \cup {[id |-> JPosInt(9)]}

Column(n, t) == [name |-> n, type |-> t]

TableInfo(cols) == [schema |-> "public", name |-> "customers", columns |-> cols]

\* The table descriptions a script returns.
TableInfos ==
    {TableInfo(<<>>),
     TableInfo(<<Column("id", "int")>>),
     TableInfo(<<Column("id", "int"), Column("name", "text")>>),
     TableInfo(<<Column("id", "string")>>),
     TableInfo(<<Column("id", "float8"), Column("name", "varchar")>>),
     TableInfo(<<Column("id", "uuid")>>)}

\* deno::TransformResult as insert_data reads it (postgres.rs:79-97)
TransformResults ==
    [success : BOOLEAN,
     error : {None, Some("boom")},
     table_info : {None} \cup {Some(t) : t \in TableInfos},
     data : {None} \cup {Some(rs) : rs \in SeqsUpTo(Rows, MaxRows)}]

\* Results that reach the pool: accepted rows for tables that share schema,
\* name and column names and differ in the declared types.
SharedTableResults ==
    [success : {TRUE},
     error : {None},
     table_info : {Some(TableInfo(<<Column("id", "int")>>)),
                   Some(TableInfo(<<Column("id", "string")>>))},
     data : {Some(<<[id |-> JPosInt(9)]>>)}]

\* The results the callers of a workload pass to insert_data.
Inputs(w) == IF w = "shared" THEN SharedTableResults ELSE TransformResults

\* Result<u64>: Ok(rows) or Err(err), the error with the detail it carries.
Ok(n) == [ok |-> TRUE, rows |-> n, err |-> "", detail |-> None]
Err(e, d) == [ok |-> FALSE, rows |-> 0, err |-> e, detail |-> d]
NoResult == [ok |-> FALSE, rows |-> 0, err |-> "pending", detail |-> None]

\* ColumnData (postgres.rs:50-56)
ColumnDataOf(tag, vals) == [tag |-> tag, vals |-> vals]

\* postgres.rs:143-181: the buffer kind of a declared type
MergeTag(type) ==
    CASE type \in {"int", "integer"} -> "Int"
      [] type \in {"text", "varchar", "string"} -> "Text"
      [] type = "bool" -> "Bool"
      [] type \in {"float", "float8", "double"} -> "Float"
      [] OTHER -> "Unsupported"

\* postgres.rs:119-139: does the match accept this (type, value) pair
Accepts(type, v) ==
    \/ type \in {"int", "integer"} /\ IsNumber(v) /\ is_i64(v)
    \/ type \in {"string", "text", "varchar"} /\ v.kind = "String"
    \/ type \in {"string", "text", "varchar"} /\ IsNumber(v)
    \/ type = "bool" /\ v.kind = "Bool"
    \/ type \in {"float", "float8", "double"} /\ IsNumber(v) /\ (is_f64(v) \/ is_i64(v))

\* postgres.rs:120-134: the value pushed for an accepted pair
Coerce(type, v) ==
    CASE type \in {"int", "integer"} -> [i |-> as_i32(v.n), s |-> ""]
      [] type \in {"string", "text", "varchar"} /\ v.kind = "String" -> [i |-> 0, s |-> v.s]
      [] type \in {"string", "text", "varchar"} -> [i |-> 0, s |-> NumberToString(v)]
      [] type = "bool" -> [i |-> v.n, s |-> ""]
      [] OTHER -> [i |-> 0, s |-> NumberToString(v)]

RECURSIVE FirstBadRowMissingOnly(_, _, _)
\* (mutant) only a missing column stops the loop, any value is pushed
FirstBadRowMissingOnly(col, rows, i) ==
    IF i > Len(rows) THEN 0
    ELSE IF col.name \notin DOMAIN rows[i] THEN i
    ELSE FirstBadRowMissingOnly(col, rows, i + 1)

\* postgres.rs:113-116: the first row, in order, that lacks the column (0: none)
RECURSIVE FirstBadRow(_, _, _)
FirstBadRow(col, rows, i) ==
    IF i > Len(rows) THEN 0
    ELSE IF col.name \notin DOMAIN rows[i] THEN i
    ELSE IF ~Accepts(col.type, rows[i][col.name]) THEN i
    ELSE FirstBadRow(col, rows, i + 1)

\* (mutant) the buffer is filled from the last row to the first
ColumnBufferReversed(col, rows) ==
    ColumnDataOf(MergeTag(col.type),
        [i \in 1 .. Len(rows) |-> Coerce(col.type, rows[Len(rows) + 1 - i][col.name])])

\* postgres.rs:111-182: the buffer of one column: one pushed value per row,
\* in row order, merged into the ColumnData of the declared type
ColumnBuffer(col, rows) ==
    ColumnDataOf(MergeTag(col.type),
        [i \in 1 .. Len(rows) |-> Coerce(col.type, rows[i][col.name])])

\* postgres.rs:110-184: the buffers of the columns from index c on, or the
\* first error met going column by column and, within a column, row by row
RECURSIVE BuildColumns(_, _, _, _)
BuildColumns(columns, rows, c, acc) ==
    IF c > Len(columns) THEN [ok |-> TRUE, cols |-> acc, res |-> NoResult]
    ELSE LET col == columns[c]
             bad == FirstBadRow(col, rows, 1)
         IN  IF bad # 0
             THEN [ok |-> FALSE, cols |-> <<>>,
                   res |-> IF col.name \notin DOMAIN rows[bad]
                           THEN Err("Missing column", Some(col.name))
                           ELSE Err("Type mismatch or unsupported", Some(col.name))]
             ELSE IF MergeTag(col.type) = "Unsupported"
             THEN [ok |-> FALSE, cols |-> <<>>,
                   res |-> Err("Unsupported type merge", Some(col.type))]
             ELSE BuildColumns(columns, rows, c + 1, Append(acc, ColumnBuffer(col, rows)))

\* (mutant) table_info is looked at before the success flag
PrepareInsertChecksTableFirst(data) ==
    IF data.table_info = None
    THEN [ok |-> FALSE, cols |-> <<>>, res |-> Err("Missing table_info", None)]
    ELSE IF ~data.success
    THEN [ok |-> FALSE, cols |-> <<>>,
          res |-> Err("TransformResult indicates failure", data.error)]
    ELSE IF data.data = None
    THEN [ok |-> FALSE, cols |-> <<>>, res |-> Err("Missing data", None)]
    ELSE IF Unwrap(data.data) = <<>> \/ Unwrap(data.table_info).columns = <<>>
    THEN [ok |-> FALSE, cols |-> <<>>, res |-> Ok(0)]
    ELSE BuildColumns(Unwrap(data.table_info).columns, Unwrap(data.data), 1, <<>>)

\* (mutant) an empty column list is not tested: the call goes on to the pool
PrepareInsertNoColumnsTest(data) ==
    IF ~data.success
    THEN [ok |-> FALSE, cols |-> <<>>,
          res |-> Err("TransformResult indicates failure", data.error)]
    ELSE IF data.table_info = None
    THEN [ok |-> FALSE, cols |-> <<>>, res |-> Err("Missing table_info", None)]
    ELSE IF data.data = None
    THEN [ok |-> FALSE, cols |-> <<>>, res |-> Err("Missing data", None)]
    ELSE IF Unwrap(data.data) = <<>>
    THEN [ok |-> FALSE, cols |-> <<>>, res |-> Ok(0)]
    ELSE BuildColumns(Unwrap(data.table_info).columns, Unwrap(data.data), 1, <<>>)

\* (mutant) absent data is treated like empty data
PrepareInsertMissingDataIsEmpty(data) ==
    IF ~data.success
    THEN [ok |-> FALSE, cols |-> <<>>,
          res |-> Err("TransformResult indicates failure", data.error)]
    ELSE IF data.table_info = None
    THEN [ok |-> FALSE, cols |-> <<>>, res |-> Err("Missing table_info", None)]
    ELSE IF data.data = None \/ Unwrap(data.data) = <<>>
    THEN [ok |-> FALSE, cols |-> <<>>, res |-> Ok(0)]
    ELSE IF Unwrap(data.table_info).columns = <<>>
    THEN [ok |-> FALSE, cols |-> <<>>, res |-> Ok(0)]
    ELSE BuildColumns(Unwrap(data.table_info).columns, Unwrap(data.data), 1, <<>>)

\* postgres.rs:79-184: everything insert_data does before it touches the
\* pool: either it returns (ok = FALSE, res the value returned) or it goes on
\* with the column buffers built (ok = TRUE)
PrepareInsert(data) ==
    IF ~data.success
    THEN [ok |-> FALSE, cols |-> <<>>,
          res |-> Err("TransformResult indicates failure", data.error)]
    ELSE IF data.table_info = None
    THEN [ok |-> FALSE, cols |-> <<>>, res |-> Err("Missing table_info", None)]
    ELSE IF data.data = None
    THEN [ok |-> FALSE, cols |-> <<>>, res |-> Err("Missing data", None)]
    ELSE IF Unwrap(data.data) = <<>>
    THEN [ok |-> FALSE, cols |-> <<>>, res |-> Ok(0)]
    ELSE IF Unwrap(data.table_info).columns = <<>>
    THEN [ok |-> FALSE, cols |-> <<>>, res |-> Ok(0)]
    ELSE BuildColumns(Unwrap(data.table_info).columns, Unwrap(data.data), 1, <<>>)

\* ColumnData::pg_type
pg_type(c) ==
    CASE c.tag = "Int" -> "int"
      [] c.tag = "Text" -> "text"
      [] c.tag = "Bool" -> "bool"
      [] OTHER -> "float8"

RECURSIVE Join(_, _)
\* [&str]::join
Join(strs, sep) ==
    IF strs = <<>> THEN ""
    ELSE IF Len(strs) = 1 THEN strs[1]
    ELSE strs[1] \o sep \o Join(Tail(strs), sep)

\* postgres.rs:187-191
column_names(columns) == Join([i \in 1 .. Len(columns) |-> columns[i].name], ", ")

\* postgres.rs:193-198
unnest_args(cols) ==
    Join([i \in 1 .. Len(cols) |-> "$" \o ToString(i) \o "::" \o pg_type(cols[i]) \o "[]"],
         ", ")

\* (mutant) the key leaves out the signature of declared types
CacheKeyWithoutTypes(table_info, cols) ==
    <<table_info.schema, table_info.name, column_names(table_info.columns), "">>

\* postgres.rs:206-211: the key of the statement cache
CacheKey(table_info, cols) ==
    <<table_info.schema, table_info.name, column_names(table_info.columns),
      unnest_args(cols)>>

\* postgres.rs:214-217
Query(table_info, cols) ==
    "INSERT INTO " \o table_info.schema \o "." \o table_info.name \o " (" \o
    column_names(table_info.columns) \o ") SELECT * FROM UNNEST(" \o
    unnest_args(cols) \o ")"

\* The callers of insert_data; in the file pipeline one call is in flight at
\* a time (file.rs:84-87).
Callers == {1, 2}

\* Bound on the number of calls a caller makes.
MaxCalls == 2

Connections == 1 .. NumConnections

NoArg == [success |-> FALSE, error |-> None, table_info |-> None, data |-> None]
NoStatement == [query |-> "", conn |-> 0]
NoExecution == [query |-> "", prepared_on |-> 0, conn |-> 0, params |-> <<>>,
                reported |-> 0]

InsertInit ==
    /\ iarg = [c \in Callers |-> NoArg]
    /\ ipc = [c \in Callers |-> IF c = 1 THEN "idle" ELSE "off"]
    /\ iresult = [c \in Callers |-> NoResult]
    /\ column_data = [c \in Callers |-> <<>>]
    /\ connection = [c \in Callers |-> 0]
    /\ statement = [c \in Callers |-> NoStatement]
    /\ effects = [c \in Callers |-> <<>>]
    /\ calls_made = [c \in Callers |-> 0]
    /\ query_cache = {}
    /\ idle_conns = Connections
    /\ executed = [c \in Callers |-> NoExecution]
    /\ entry_lock = [c \in Callers |-> None]
    /\ prepare_log = <<>>
    /\ workload = "any"
    /\ worker_threads = Cardinality(Callers)

InsertIdle ==
    /\ iarg = [c \in Callers |-> NoArg]
    /\ ipc = [c \in Callers |-> "off"]
    /\ iresult = [c \in Callers |-> NoResult]
    /\ column_data = [c \in Callers |-> <<>>]
    /\ connection = [c \in Callers |-> 0]
    /\ statement = [c \in Callers |-> NoStatement]
    /\ effects = [c \in Callers |-> <<>>]
    /\ calls_made = [c \in Callers |-> 0]
    /\ query_cache = {}
    /\ idle_conns = Connections
    /\ executed = [c \in Callers |-> NoExecution]
    /\ entry_lock = [c \in Callers |-> None]
    /\ prepare_log = <<>>
    /\ workload = "any"
    /\ worker_threads = Cardinality(Callers)

\* Two tasks call insert_data on the same Pool at the same time.
InsertConcInit ==
    /\ iarg = [c \in Callers |-> NoArg]
    /\ ipc = [c \in Callers |-> "idle"]
    /\ iresult = [c \in Callers |-> NoResult]
    /\ column_data = [c \in Callers |-> <<>>]
    /\ connection = [c \in Callers |-> 0]
    /\ statement = [c \in Callers |-> NoStatement]
    /\ effects = [c \in Callers |-> <<>>]
    /\ calls_made = [c \in Callers |-> 0]
    /\ query_cache = {}
    /\ idle_conns = Connections
    /\ executed = [c \in Callers |-> NoExecution]
    /\ entry_lock = [c \in Callers |-> None]
    /\ prepare_log = <<>>
    /\ workload = "shared"
    /\ worker_threads = Cardinality(Callers)

\* main.rs:73: #[tokio::main] starts one worker thread per core; the two
\* tasks run on a machine of one core or of two.
InsertThreadsInit ==
    /\ iarg = [c \in Callers |-> NoArg]
    /\ ipc = [c \in Callers |-> "idle"]
    /\ iresult = [c \in Callers |-> NoResult]
    /\ column_data = [c \in Callers |-> <<>>]
    /\ connection = [c \in Callers |-> 0]
    /\ statement = [c \in Callers |-> NoStatement]
    /\ effects = [c \in Callers |-> <<>>]
    /\ calls_made = [c \in Callers |-> 0]
    /\ query_cache = {}
    /\ idle_conns = Connections
    /\ executed = [c \in Callers |-> NoExecution]
    /\ entry_lock = [c \in Callers |-> None]
    /\ prepare_log = <<>>
    /\ workload = "shared"
    /\ worker_threads \in 1 .. Cardinality(Callers)

\* The tasks that wait inside entry() for the lock of a shard: the lock is a
\* thread lock, so each of them keeps its worker thread.
BlockedCallers == {c \in Callers : ipc[c] = "blocked"}

\* A task starts, or goes on after an await, on a worker thread that is not
\* kept by a task waiting inside entry().  With a worker thread per caller
\* (InsertInit, InsertConcInit) there always is one.
ThreadFree == Cardinality(BlockedCallers) < worker_threads

\* The cached statement of a key, if any.
CachedFor(key) == {e \in query_cache : e.key = key}

\* postgres.rs:78-198: insert_data is called with `data`; it returns at once
\* or goes on to the pool with the column buffers
InsertCall(c) ==
    /\ ipc[c] = "idle"
    /\ ThreadFree
    /\ calls_made[c] < MaxCalls
    /\ \E data \in Inputs(workload) :
        LET pre == PrepareInsert(data)
        IN  /\ iarg' = [iarg EXCEPT ![c] = data]
            /\ effects' = [effects EXCEPT ![c] = <<>>]
            /\ IF pre.ok
               THEN /\ column_data' = [column_data EXCEPT ![c] = pre.cols]
                    /\ iresult' = [iresult EXCEPT ![c] = NoResult]
                    /\ ipc' = [ipc EXCEPT ![c] = "acquire"]
               ELSE /\ column_data' = [column_data EXCEPT ![c] = <<>>]
                    /\ iresult' = [iresult EXCEPT ![c] = pre.res]
                    /\ ipc' = [ipc EXCEPT ![c] = "done"]
    /\ calls_made' = [calls_made EXCEPT ![c] = @ + 1]
    /\ UNCHANGED <<connection, statement, query_cache, idle_conns, executed>>
    /\ UNCHANGED <<entry_lock, prepare_log, workload, worker_threads>>
    /\ InsertFrame

\* postgres.rs:200-204: pool.db.get().await hands out an idle connection
AcquireConnection(c) ==
    /\ ipc[c] = "acquire"
    /\ ThreadFree
    /\ \E k \in idle_conns :
        /\ connection' = [connection EXCEPT ![c] = k]
        /\ idle_conns' = idle_conns \ {k}
    /\ effects' = [effects EXCEPT ![c] = Append(@, "acquire")]
    /\ ipc' = [ipc EXCEPT ![c] = "lookup"]
    /\ UNCHANGED <<iarg, iresult, column_data, statement, calls_made, query_cache, executed>>
    /\ UNCHANGED <<entry_lock, prepare_log, workload, worker_threads>>
    /\ InsertFrame

\* postgres.rs:200-204: pool.db.get().await fails; the error is returned
AcquireFails(c) ==
    /\ ipc[c] = "acquire"
    /\ ThreadFree
    /\ iresult' = [iresult EXCEPT ![c] = Err("ConnectionAcquire", None)]
    /\ effects' = [effects EXCEPT ![c] = Append(@, "acquire_failed")]
    /\ ipc' = [ipc EXCEPT ![c] = "done"]
    /\ UNCHANGED <<iarg, column_data, connection, statement, calls_made, query_cache,
                   idle_conns, executed>>
    /\ UNCHANGED <<entry_lock, prepare_log, workload, worker_threads>>
    /\ InsertFrame

\* (mutant) entry() does not wait for the holder of the entry
EntryNeverLocked(c, key) == TRUE

\* postgres.rs:206: entry() takes the write lock of the key's map shard and
\* waits while another call holds it; the model has one shard per key.
EntryUnlocked(c, key) == \A d \in Callers \ {c} : entry_lock[d] # Some(key)

\* postgres.rs:206-213: the cache entry of the key; an occupied entry gives
\* the cached statement and is released, a vacant one stays locked and
\* leads to prepare
CacheLookup(c) ==
    /\ ipc[c] \in {"lookup", "blocked"}
    /\ LET key == CacheKey(Unwrap(iarg[c].table_info), column_data[c])
       IN  /\ EntryUnlocked(c, key)
           /\ IF CachedFor(key) # {}
              THEN /\ statement' = [statement EXCEPT ![c] =
                                       (CHOOSE e \in CachedFor(key) : TRUE).statement]
                   /\ ipc' = [ipc EXCEPT ![c] = "execute"]
                   /\ entry_lock' = entry_lock
              ELSE /\ statement' = statement
                   /\ ipc' = [ipc EXCEPT ![c] = "prepare"]
                   /\ entry_lock' = [entry_lock EXCEPT ![c] = Some(key)]
    /\ UNCHANGED <<iarg, iresult, column_data, connection, effects, calls_made,
                   query_cache, idle_conns, executed, prepare_log, workload, worker_threads>>
    /\ InsertFrame

\* postgres.rs:214-220: the statement is prepared on the connection held and
\* put into the vacant entry, which is released
PrepareStatement(c) ==
    /\ ipc[c] = "prepare"
    /\ ThreadFree
    /\ LET table_info == Unwrap(iarg[c].table_info)
           key == CacheKey(table_info, column_data[c])
           stmt == [query |-> Query(table_info, column_data[c]), conn |-> connection[c]]
       IN  /\ statement' = [statement EXCEPT ![c] = stmt]
           /\ query_cache' = query_cache \cup {[key |-> key, statement |-> stmt]}
           /\ prepare_log' = Append(prepare_log, key)
    /\ entry_lock' = [entry_lock EXCEPT ![c] = None]
    /\ effects' = [effects EXCEPT ![c] = @ \o <<"prepare", "cache_insert">>]
    /\ ipc' = [ipc EXCEPT ![c] = "execute"]
    /\ UNCHANGED <<iarg, iresult, column_data, connection, calls_made, idle_conns, executed,
                   workload, worker_threads>>
    /\ InsertFrame

\* postgres.rs:218: connection.prepare fails; the error is returned, the
\* entry stays vacant and the connection goes back to the pool
PrepareFails(c) ==
    /\ ipc[c] = "prepare"
    /\ ThreadFree
    /\ iresult' = [iresult EXCEPT ![c] = Err("StatementPrepare", None)]
    /\ effects' = [effects EXCEPT ![c] = Append(@, "prepare_failed")]
    /\ idle_conns' = idle_conns \cup {connection[c]}
    /\ connection' = [connection EXCEPT ![c] = 0]
    /\ ipc' = [ipc EXCEPT ![c] = "done"]
    /\ UNCHANGED <<iarg, column_data, statement, calls_made, query_cache, executed,
                   prepare_log, workload, worker_threads>>
    /\ entry_lock' = [entry_lock EXCEPT ![c] = None]
    /\ InsertFrame

\* postgres.rs:224-233: the statement is executed with the column buffers as
\* parameters; the driver's row count or its error is returned and the
\* connection goes back to the pool
ExecuteStatement(c) ==
    /\ ipc[c] = "execute"
    /\ ThreadFree
    /\ executed' = [executed EXCEPT ![c] =
                        [query |-> statement[c].query, prepared_on |-> statement[c].conn,
                         conn |-> connection[c], params |-> column_data[c],
                         reported |-> Len(Unwrap(iarg[c].data))]]
    /\ \/ iresult' = [iresult EXCEPT ![c] = Ok(Len(Unwrap(iarg[c].data)))]
       \/ iresult' = [iresult EXCEPT ![c] = Err("StatementExecute", None)]
    /\ effects' = [effects EXCEPT ![c] = Append(@, "execute")]
    /\ idle_conns' = idle_conns \cup {connection[c]}
    /\ connection' = [connection EXCEPT ![c] = 0]
    /\ ipc' = [ipc EXCEPT ![c] = "done"]
    /\ UNCHANGED <<iarg, column_data, statement, calls_made, query_cache>>
    /\ UNCHANGED <<entry_lock, prepare_log, workload, worker_threads>>
    /\ InsertFrame

\* The caller has its result and is ready for the next call.
InsertReturn(c) ==
    /\ ipc[c] = "done"
    /\ iarg' = [iarg EXCEPT ![c] = NoArg]
    /\ iresult' = [iresult EXCEPT ![c] = NoResult]
    /\ column_data' = [column_data EXCEPT ![c] = <<>>]
    /\ statement' = [statement EXCEPT ![c] = NoStatement]
    /\ effects' = [effects EXCEPT ![c] = <<>>]
    /\ executed' = [executed EXCEPT ![c] = NoExecution]
    /\ ipc' = [ipc EXCEPT ![c] = "idle"]
    /\ UNCHANGED <<connection, calls_made, query_cache, idle_conns>>
    /\ UNCHANGED <<entry_lock, prepare_log, workload, worker_threads>>
    /\ InsertFrame

\* postgres.rs:206: entry() finds the lock of the shard held by a call that
\* is suspended at prepare(..).await (postgres.rs:218) and waits for it on
\* its worker thread
EntryBlocks(c) ==
    /\ ipc[c] = "lookup"
    /\ ~EntryUnlocked(c, CacheKey(Unwrap(iarg[c].table_info), column_data[c]))
    /\ ipc' = [ipc EXCEPT ![c] = "blocked"]
    /\ UNCHANGED <<iarg, iresult, column_data, connection, statement, effects, query_cache,
                   idle_conns, executed, calls_made, entry_lock, prepare_log, workload,
                   worker_threads>>
    /\ InsertFrame

\* The steps of caller c when a wait inside entry() keeps a worker thread.
InsertThreadsStep(c) ==
    \/ InsertCall(c)
    \/ AcquireConnection(c)
    \/ AcquireFails(c)
    \/ EntryBlocks(c)
    \/ CacheLookup(c)
    \/ PrepareStatement(c)
    \/ PrepareFails(c)
    \/ ExecuteStatement(c)
    \/ InsertReturn(c)

InsertThreadsNext == \E c \in Callers : InsertThreadsStep(c)

InsertNext ==
    \E c \in Callers :
        \/ InsertCall(c)
        \/ AcquireConnection(c)
        \/ AcquireFails(c)
        \/ CacheLookup(c)
        \/ PrepareStatement(c)
        \/ PrepareFails(c)
        \/ ExecuteStatement(c)
        \/ InsertReturn(c)

(***************************************************************************)
(*                     PROPERTIES OF THE DATABASE WRITER                   *)
(***************************************************************************)

\* insert_data has returned to caller c.
Returned(c) == ipc[c] = "done"

\* Caller c's step is an entry into insert_data.
Enters(c) == ipc[c] = "idle" /\ ipc'[c] # "idle"

\* C9: a call with success = false fails with the error that carries the
\* script's error, whatever table_info and data hold, and the call acquires
\* no connection, prepares nothing and leaves the statement cache as it was.
C9_ScriptFailureRejected ==
    /\ [](\A c \in Callers :
            (Returned(c) /\ ~iarg[c].success) =>
                /\ iresult[c] = Err("TransformResult indicates failure", iarg[c].error)
                /\ effects[c] = <<>>
                /\ connection[c] = 0)
    /\ [][\A c \in Callers :
            (Enters(c) /\ ~iarg'[c].success) =>
                /\ Returned(c)'
                /\ query_cache' = query_cache
                /\ idle_conns' = idle_conns
                /\ connection' = connection
         ]_vars

\* A failed script result that names a table and carries rows was rejected
\* while the cache held a statement.
C9_Witness ==
    \E c \in Callers :
        /\ Returned(c)
        /\ ~iarg[c].success
        /\ iarg[c].error = Some("boom")
        /\ IsSome(iarg[c].table_info)
        /\ Unwrap(iarg[c].table_info).columns # <<>>
        /\ IsSome(iarg[c].data)
        /\ Unwrap(iarg[c].data) # <<>>
        /\ query_cache # {}

\* C10: a call with success = true and table_info or data absent fails with
\* an error, also when the other of the two is present and empty; it never
\* returns a row count, and it does nothing to the pool or the cache.
C10_MissingPartsRejected ==
    \A c \in Callers :
        (Returned(c) /\ iarg[c].success
            /\ (iarg[c].table_info = None \/ iarg[c].data = None)) =>
            /\ ~iresult[c].ok
            /\ iresult[c].err =
                 IF iarg[c].table_info = None THEN "Missing table_info" ELSE "Missing data"
            /\ effects[c] = <<>>

\* A successful result without data, whose table has no columns, was rejected.
C10_Witness ==
    \E c \in Callers :
        /\ Returned(c)
        /\ iarg[c].success
        /\ iarg[c].data = None
        /\ IsSome(iarg[c].table_info)
        /\ Unwrap(iarg[c].table_info).columns = <<>>
        /\ ~iresult[c].ok

\* The call of caller c carries a table description and rows.
WellFormed(c) ==
    iarg[c].success /\ IsSome(iarg[c].table_info) /\ IsSome(iarg[c].data)

\* C11: a successful result whose data is empty, or whose column list is
\* empty, makes insert_data return 0 without any database call: no
\* connection is acquired, nothing is prepared or executed, and the cache
\* stays as it was.
C11_EmptyInputReturnsZero ==
    /\ [](\A c \in Callers :
            (Returned(c) /\ WellFormed(c)
                /\ (Unwrap(iarg[c].data) = <<>>
                      \/ Unwrap(iarg[c].table_info).columns = <<>>)) =>
                /\ iresult[c] = Ok(0)
                /\ effects[c] = <<>>
                /\ executed[c] = NoExecution
                /\ connection[c] = 0)
    /\ [][\A c \in Callers :
            (Enters(c) /\ WellFormed(c)'
                /\ (Unwrap(iarg'[c].data) = <<>>
                      \/ Unwrap(iarg'[c].table_info).columns = <<>>)) =>
                /\ Returned(c)'
                /\ query_cache' = query_cache
                /\ idle_conns' = idle_conns
         ]_vars

\* Rows for a table without columns were skipped while the cache held a
\* statement.
C11_Witness ==
    \E c \in Callers :
        /\ Returned(c)
        /\ WellFormed(c)
        /\ Unwrap(iarg[c].data) # <<>>
        /\ Unwrap(iarg[c].table_info).columns = <<>>
        /\ iresult[c] = Ok(0)
        /\ query_cache # {}

\* Some row of the call lacks a declared column or holds a value that the
\* column's declared type does not take.
HasBadCell(c) ==
    LET columns == Unwrap(iarg[c].table_info).columns
        rows == Unwrap(iarg[c].data)
    IN  \E k \in DOMAIN columns, i \in DOMAIN rows :
            \/ columns[k].name \notin DOMAIN rows[i]
            \/ ~Accepts(columns[k].type, rows[i][columns[k].name])

\* C12: if any row of a batch lacks a declared column or holds a value that
\* cannot be coerced, insert_data fails for the whole batch before it
\* acquires a connection, prepares a statement or creates a cache entry, so
\* no row of the batch is inserted.
C12_BadRowFailsWholeBatch ==
    /\ [](\A c \in Callers :
            (ipc[c] # "idle" /\ ipc[c] # "off" /\ WellFormed(c)
                /\ Unwrap(iarg[c].data) # <<>>
                /\ Unwrap(iarg[c].table_info).columns # <<>>
                /\ HasBadCell(c)) =>
                /\ Returned(c)
                /\ ~iresult[c].ok
                /\ iresult[c].err \in {"Missing column", "Type mismatch or unsupported"}
                /\ effects[c] = <<>>
                /\ executed[c] = NoExecution)
    /\ [][\A c \in Callers :
            (Enters(c) /\ WellFormed(c)'
                /\ Unwrap(iarg'[c].data) # <<>>
                /\ Unwrap(iarg'[c].table_info).columns # <<>>
                /\ HasBadCell(c)') =>
                (query_cache' = query_cache /\ idle_conns' = idle_conns)
         ]_vars

\* A batch whose first row is good and whose second row lacks a column failed.
C12_Witness ==
    \E c \in Callers :
        /\ Returned(c)
        /\ WellFormed(c)
        /\ Len(Unwrap(iarg[c].data)) = 2
        /\ Len(Unwrap(iarg[c].table_info).columns) = 2
        /\ "name" \notin DOMAIN Unwrap(iarg[c].data)[2]
        /\ Accepts("int", Unwrap(iarg[c].data)[1].id)
        /\ "name" \in DOMAIN Unwrap(iarg[c].data)[1]
        /\ Accepts("text", Unwrap(iarg[c].data)[1].name)
        /\ Unwrap(iarg[c].table_info).columns[1].type = "int"
        /\ iresult[c].err = "Missing column"

\* The stored value is the cell's value where the two can be compared as
\* they are: an integer of the column's range, or a string.
StoredAsIs(type, v, stored) ==
    /\ (type \in {"int", "integer"} /\ v.kind = "PosInt" /\ v.n < 2 ^ (I32Bits - 1))
           => stored.i = v.n
    /\ (type \in {"string", "text", "varchar"} /\ v.kind = "String") => stored.s = v.s

\* C37: a statement taken from the cache is executed on the connection
\* that prepared it: whenever insert_data executes a statement, the
\* connection the pool handed out for that call is the statement's own.
C37_StatementOnItsConnection ==
    \A c \in Callers :
        executed[c] # NoExecution => executed[c].prepared_on = executed[c].conn

\* C31: a successful insert of a non-empty batch executes one statement; its
\* i-th parameter is the buffer of the i-th declared column, each buffer has
\* one value per row in row order, and the row count reported for that
\* execution is returned.
C31_OneStatementColumnBuffers ==
    \A c \in Callers :
        (Returned(c) /\ iresult[c].ok /\ executed[c] # NoExecution) =>
            LET columns == Unwrap(iarg[c].table_info).columns
                rows == Unwrap(iarg[c].data)
                bound == executed[c].params
            IN  /\ Cardinality({i \in DOMAIN effects[c] : effects[c][i] = "execute"}) = 1
                /\ Len(bound) = Len(columns)
                /\ \A i \in DOMAIN columns :
                       /\ pg_type(bound[i]) = pg_type([tag |-> MergeTag(columns[i].type)])
                       /\ Len(bound[i].vals) = Len(rows)
                       /\ \A r \in DOMAIN rows :
                              StoredAsIs(columns[i].type, rows[r][columns[i].name],
                                         bound[i].vals[r])
                /\ iresult[c].rows = executed[c].reported

\* Two rows with different ids and names were inserted into two columns.
C31_Witness ==
    \E c \in Callers :
        /\ Returned(c) /\ iresult[c].ok
        /\ Len(executed[c].params) = 2
        /\ Len(Unwrap(iarg[c].data)) = 2
        /\ executed[c].params[1].vals[1].i = 7
        /\ executed[c].params[1].vals[2].i = 8
        /\ iresult[c].rows = 2

\* The cache key of the call of caller c.
KeyOf(c) == CacheKey(Unwrap(iarg[c].table_info), column_data[c])

\* C14: across any sequence of insert_data calls, concurrent ones included,
\* a statement is prepared once per distinct cache key, and a later insert
\* with that key executes the cached statement without preparing again.
C14_PreparedOncePerKey ==
    /\ [](\A i, j \in DOMAIN prepare_log :
            prepare_log[i] = prepare_log[j] => i = j)
    /\ [](\A c \in Callers :
            executed[c] # NoExecution =>
                /\ \E i \in DOMAIN prepare_log : prepare_log[i] = KeyOf(c)
                /\ CachedFor(KeyOf(c)) = {[key |-> KeyOf(c), statement |-> statement[c]]}
                /\ executed[c].query = statement[c].query
                /\ executed[c].prepared_on = statement[c].conn)
    /\ [][\A c \in Callers :
            (ipc[c] = "lookup" /\ ipc'[c] # "lookup" /\ CachedFor(KeyOf(c)) # {}) =>
                /\ ipc'[c] = "execute"
                /\ statement'[c] \in {e.statement : e \in CachedFor(KeyOf(c))}
                /\ prepare_log' = prepare_log
                /\ query_cache' = query_cache
         ]_vars

\* Two concurrent calls with one key have both executed; one of them
\* prepared the statement, the other did not, and the key was prepared once.
C14_Witness ==
    \E c, d \in Callers :
        /\ c # d
        /\ executed[c] # NoExecution
        /\ executed[d] # NoExecution
        /\ KeyOf(c) = KeyOf(d)
        /\ \E i \in DOMAIN effects[c] : effects[c][i] = "prepare"
        /\ \A i \in DOMAIN effects[d] : effects[d][i] # "prepare"
        /\ prepare_log = <<KeyOf(c)>>

\* C30: when two insert calls miss the cache on the same key at the same
\* time, the cache holds one statement for the key, the first one inserted;
\* a cache entry is never overwritten or removed; and both calls complete,
\* neither waits for the other forever.
C30_ConcurrentMissesBothComplete ==
    /\ [](\A e1, e2 \in query_cache : e1.key = e2.key => e1 = e2)
    /\ [][\A e \in query_cache : e \in query_cache']_vars
    /\ \A c \in Callers :
           (ipc[c] \in {"lookup", "blocked", "prepare"}) ~> (ipc[c] = "done")

\* Two cache keys name the same table and columns with different declared types.
SameTableOtherTypes(k1, k2) ==
    k1[1] = k2[1] /\ k1[2] = k2[2] /\ k1[3] = k2[3] /\ k1[4] # k2[4]

\* C15: two results with the same schema, table and column names and
\* different declared column types have different cache keys and never
\* execute each other's statement: each call executes the INSERT built from
\* its own table description and column buffers.
C15_TypesArePartOfKey ==
    /\ \A c \in Callers :
          executed[c] # NoExecution =>
              /\ executed[c].query =
                    Query(Unwrap(iarg[c].table_info), column_data[c])
              /\ \A e \in query_cache :
                    SameTableOtherTypes(e.key, KeyOf(c)) =>
                        executed[c].query # e.statement.query
    /\ \A e \in query_cache :
          e.statement.query =
              "INSERT INTO " \o e.key[1] \o "." \o e.key[2] \o " (" \o e.key[3]
                 \o ") SELECT * FROM UNNEST(" \o e.key[4] \o ")"

\* A call for (id: string) executed its own statement while the cache held
\* the statement of (id: int) for the same table and column.
C15_Witness ==
    \E c \in Callers :
        /\ executed[c] # NoExecution
        /\ Unwrap(iarg[c].table_info).columns = <<Column("id", "string")>>
        /\ \E e \in query_cache :
              /\ SameTableOtherTypes(e.key, KeyOf(c))
              /\ e.key[4] = "$1::int[]"
        /\ executed[c].query =
              "INSERT INTO public.customers (id) SELECT * FROM UNNEST($1::text[])"

(***************************************************************************)
(*          ONE CELL OF THE COERCION MATCH  (postgres.rs:119-139)          *)
(***************************************************************************)

\* The declared types a script can name: the table's names, their aliases,
\* other spellings and names outside the table.
TypeNames ==
    {"int", "integer", "text", "string", "varchar", "bool", "float8", "float",
     "double", "uuid", "INT", "boolean"}

\* JSON values of every kind; the integers include one above i32::MAX and
\* one above i64::MAX (a u64 such as the 10000000000000000000 that
\* JSON.stringify(1e19) writes).
JsonValues ==
    {JNull, JBool(TRUE), JBool(FALSE), JPosInt(0), JPosInt(7), JPosInt(200),
     JPosInt(I64Max), JPosInt(I64Max + 1), JPosInt(U64Max), JNegInt(-3),
     JFloat("1.5"), JFloat("-0.25"), JString("x"), JString("7"), JString("")}

NoCell == [ok |-> FALSE, tag |-> "pending", i |-> 0, s |-> ""]

\* postgres.rs:119-139: the arm taken pushes one ColumnData, the last arm bails
MatchCell(type, v) ==
    IF Accepts(type, v)
    THEN [ok |-> TRUE, tag |-> MergeTag(type),
          i |-> Coerce(type, v).i, s |-> Coerce(type, v).s]
    ELSE [ok |-> FALSE, tag |-> "Type mismatch or unsupported", i |-> 0, s |-> ""]

CoerceInit ==
    /\ co_type \in TypeNames
    /\ co_value \in JsonValues
    /\ co_result = NoCell
    /\ co_pc = "start"

CoerceIdle ==
    /\ co_type = "int"
    /\ co_value = JNull
    /\ co_result = NoCell
    /\ co_pc = "off"

\* postgres.rs:119: match (col.r#type.as_str(), value)
CoerceCell ==
    /\ co_pc = "start"
    /\ co_result' = MatchCell(co_type, co_value)
    /\ co_pc' = "done"
    /\ UNCHANGED <<co_type, co_value>>
    /\ CoerceFrame

CoerceNext == CoerceCell

\* The coercion table of the writer: the JSON values a declared type takes.
TableTakes(type, v) ==
    CASE type \in {"int", "integer"} -> v.kind \in {"PosInt", "NegInt"}
      [] type \in {"text", "string", "varchar"} -> v.kind = "String" \/ IsNumber(v)
      [] type = "bool" -> v.kind = "Bool"
      [] type \in {"float8", "float", "double"} -> IsNumber(v)
      [] OTHER -> FALSE

\* C13: the match follows the coercion table: int/integer accepts only
\* integer numbers; text/string/varchar accepts strings unchanged and
\* numbers as their decimal string; bool accepts only booleans;
\* float8/float/double accepts any integer or non-integer number; every
\* other pair, null and types outside these names included, is rejected
\* with a type mismatch.
C13_CoercionTable ==
    co_pc = "done" =>
        /\ co_result.ok => TableTakes(co_type, co_value)
        /\ (co_type \notin {"int", "integer"} /\ TableTakes(co_type, co_value))
              => co_result.ok
        /\ ~co_result.ok => co_result.tag = "Type mismatch or unsupported"
        /\ (co_result.ok /\ co_type \in {"text", "string", "varchar"}) =>
              co_result.s = IF co_value.kind = "String" THEN co_value.s
                            ELSE NumberToString(co_value)

\* The range of the model's i32.
I32Min == -(2 ^ (I32Bits - 1))
I32Max == 2 ^ (I32Bits - 1) - 1

\* C38: an int column never stores another number than the one it was
\* given: an integer of the i32 range is accepted and stored as itself, and
\* an integer outside that range is not stored as a different number.
C38_IntNotChangedSilently ==
    (co_pc = "done" /\ co_type \in {"int", "integer"}
        /\ co_value.kind \in {"PosInt", "NegInt"}) =>
        /\ (I32Min <= co_value.n /\ co_value.n <= I32Max) =>
              co_result.ok /\ co_result.i = co_value.n
        /\ co_result.ok => co_result.i = co_value.n

(***************************************************************************)
(*        FILE PIPELINE  (file.rs, process_file: reader to try_fold)       *)
(***************************************************************************)

\* The workers of the script pool that js_pool.execute may pick.
Workers == {1, 2}

\* Errors of read_pool_and_messages (file.rs:41, 91-132) and errors the
\* message stream yields (file.rs:158-178).
HeaderErrors == {"BadDescriptorSet", "UnknownType"}
FrameErrors == {"DecodeFailed", "BadUtf8Key", "MalformedFrame"}

\* Errors of js_pool.execute (file.rs:75) and of insert_data (file.rs:85,
\* postgres.rs:79-116, 135-138, 200-233).
PoolErrors == {"ScriptExecFailed", "ResultParseFailed"}
WriterErrors ==
    {"UpstreamScriptError", "MalformedTransformResult", "MissingColumn", "TypeMismatch",
     "ConnectionAcquire", "StatementPrepare", "StatementExecute"}

\* The ids of the records of partition p that are in no batch yet.
Unbatched(p) ==
    [i \in 1 .. (Len(received[p]) - batched[p]) |-> received[p][batched[p] + i].id]

\* s without its i-th element
RemoveAt(s, i) == SubSeq(s, 1, i - 1) \o SubSeq(s, i + 1, Len(s))

\* The longest file of the specification that follows the pipeline to its end.
MaxLiveRecords == 2

\* file.rs:22-62: process_file has made the channels and spawned the reader
\* of one of the given files
FileInitWith(files) ==
    /\ messages \in files
    /\ hasher = DefaultHasher
    /\ pending = NoPending
    /\ chan = [p \in Partitions |-> <<>>]
    /\ received = [p \in Partitions |-> <<>>]
    /\ success_count = 0
    /\ rpc = "open"
    /\ reader_error = "none"
    /\ batched = [p \in Partitions |-> 0]
    /\ inflight = [p \in Partitions |-> <<>>]
    /\ f_submitted = [p \in Partitions |-> <<>>]
    /\ f_executed = [p \in Partitions |-> <<>>]
    /\ f_inserted = [p \in Partitions |-> <<>>]
    /\ insert_job = None
    /\ f_acc = 0
    /\ fpc = "running"
    /\ fresult = None

FileInit == FileInitWith({FileRecords(ks) : ks \in SeqsUpTo(Keys, MaxRecords)})

\* file.rs:46-50: the hasher after the keys ks were hashed into it, and the
\* partition the i-th record of a file with these keys is routed to
RECURSIVE HasherOver(_, _)
HasherOver(h, ks) ==
    IF ks = <<>> THEN h ELSE HasherOver(HasherAfter(h, Head(ks)), Tail(ks))

RouteOf(ks, i) == PartitionOf(HasherOver(DefaultHasher, SubSeq(ks, 1, i)))

\* The files that leave the reader task waiting in send on a full channel:
\* one record more than a channel takes, all routed to one partition.
FullChannelFiles ==
    {FileRecords(ks) : ks \in
        {k \in SeqsUpTo(Keys, ChannelCapacity + 1) :
            /\ Len(k) = ChannelCapacity + 1
            /\ \A i \in DOMAIN k : RouteOf(k, i) = RouteOf(k, 1)}}

FileCancelInit == FileInitWith(FullChannelFiles)

FileLiveInit == FileInitWith({FileRecords(ks) : ks \in SeqsUpTo(Keys, MaxLiveRecords)})

\* file.rs:41: read_pool_and_messages returns the message stream
ReaderOpen ==
    /\ rpc = "open"
    /\ rpc' = "read"
    /\ UNCHANGED <<messages, hasher, pending, chan, received, success_count>>
    /\ UNCHANGED fileVars
    /\ FileFrame

\* file.rs:41: read_pool_and_messages fails; `?` ends the spawned task with
\* the error, nobody holds its JoinHandle, and txs is dropped
ReaderOpenFails ==
    /\ rpc = "open"
    /\ \E kind \in HeaderErrors : reader_error' = kind
    /\ rpc' = "done"
    /\ UNCHANGED <<messages, hasher, pending, chan, received, success_count>>
    /\ UNCHANGED <<batched, inflight, f_submitted, f_executed, f_inserted, insert_job,
                   f_acc, fpc, fresult>>
    /\ FileFrame

\* file.rs:48, 158-178: the stream yields Err for the next record (its
\* payload does not decode, its key is not UTF-8, or the file ends inside
\* it); the pattern of `while let` does not match, the loop ends and the
\* task returns Ok(()), dropping txs
ReaderFrameError ==
    /\ rpc = "read"
    /\ messages # <<>>
    /\ \E kind \in FrameErrors :
        /\ reader_error' = kind
        /\ messages' = IF kind = "MalformedFrame" THEN <<>> ELSE Tail(messages)
    /\ rpc' = "done"
    /\ UNCHANGED <<hasher, pending, chan, received, success_count>>
    /\ UNCHANGED <<batched, inflight, f_submitted, f_executed, f_inserted, insert_job,
                   f_acc, fpc, fresult>>
    /\ FileFrame

\* file.rs:52: send fails once the receivers are gone; `?` ends the task
ReaderSendFails ==
    /\ rpc = "send"
    /\ ~ReceiverOpen
    /\ reader_error' = "SendError"
    /\ pending' = NoPending
    /\ rpc' = "done"
    /\ UNCHANGED <<messages, hasher, chan, received, success_count>>
    /\ UNCHANGED <<batched, inflight, f_submitted, f_executed, f_inserted, insert_job,
                   f_acc, fpc, fresult>>
    /\ FileFrame

\* file.rs:64-77: the batcher of partition p yields a batch, its messages
\* convert to JSON, and and_then passes them to js_pool.execute, which
\* hands the batch to a worker
SubmitBatch(p) ==
    /\ fpc = "running"
    /\ insert_job = None
    /\ StreamIdle(p)
    /\ batched[p] < Len(received[p])
    /\ \E w \in Workers :
        /\ inflight' = [inflight EXCEPT ![p] =
                          Append(@, [batch |-> Unbatched(p), worker |-> w,
                                     state |-> "running"])]
    /\ f_submitted' = [f_submitted EXCEPT ![p] = Append(@, Unbatched(p))]
    /\ batched' = [batched EXCEPT ![p] = Len(received[p])]
    /\ UNCHANGED <<reader_error, f_executed, f_inserted, insert_job, f_acc, fpc, fresult>>
    /\ UNCHANGED partVars
    /\ FileFrame

\* file.rs:66-73, 84-87: a message of the batch does not convert to JSON;
\* the Err item passes both and_then and ends try_fold
ToJsonFails(p) ==
    /\ fpc = "running"
    /\ insert_job = None
    /\ StreamIdle(p)
    /\ batched[p] < Len(received[p])
    /\ batched' = [batched EXCEPT ![p] = Len(received[p])]
    /\ fresult' = Some(Err("ToJsonFailed", None))
    /\ fpc' = "returned"
    /\ UNCHANGED <<reader_error, inflight, f_submitted, f_executed, f_inserted, insert_job,
                   f_acc>>
    /\ UNCHANGED partVars
    /\ FileFrame

\* The worker ends the script run of a submitted batch, with a result or
\* with a failure; the pool lives until process_file returns (file.rs:35).
ScriptDone(p) ==
    /\ fpc = "running"
    /\ \E i \in DOMAIN inflight[p] :
        /\ inflight[p][i].state = "running"
        /\ \E outcome \in {"ok", "failed"} :
              inflight' = [inflight EXCEPT ![p][i].state = outcome]
        /\ f_executed' = [f_executed EXCEPT ![p] = Append(@, inflight[p][i].batch)]
    /\ UNCHANGED <<reader_error, batched, f_submitted, f_inserted, insert_job, f_acc, fpc,
                   fresult>>
    /\ UNCHANGED partVars
    /\ FileFrame

\* file.rs:74-77, 82-87: the execute future of partition p is ready; select_all
\* yields its item: a result goes to insert_data, an error ends try_fold and
\* `?` returns it from process_file
TakeResult(p) ==
    /\ fpc = "running"
    /\ insert_job = None
    /\ \E i \in DOMAIN inflight[p] :
        /\ inflight[p][i].state # "running"
        /\ inflight' = [inflight EXCEPT ![p] = RemoveAt(@, i)]
        /\ IF inflight[p][i].state = "ok"
           THEN /\ insert_job' = Some([partition |-> p, batch |-> inflight[p][i].batch])
                /\ UNCHANGED <<fpc, fresult>>
           ELSE /\ \E kind \in PoolErrors : fresult' = Some(Err(kind, None))
                /\ fpc' = "returned"
                /\ UNCHANGED insert_job
    /\ UNCHANGED <<reader_error, batched, f_submitted, f_executed, f_inserted, f_acc>>
    /\ UNCHANGED partVars
    /\ FileFrame

\* (mutant) the fold keeps the count of the last batch only
FoldKeepsLast(acc, inserted) == inserted

\* file.rs:86: the step of try_fold
FoldStep(acc, inserted) == acc + inserted

\* file.rs:85-86: insert_data returns the number of rows written and
\* try_fold adds it to acc
InsertOk ==
    /\ fpc = "running"
    /\ insert_job # None
    /\ f_inserted' = [f_inserted EXCEPT ![Unwrap(insert_job).partition] =
                        Append(@, Unwrap(insert_job).batch)]
    /\ f_acc' = FoldStep(f_acc, Len(Unwrap(insert_job).batch))
    /\ insert_job' = None
    /\ UNCHANGED <<reader_error, batched, inflight, f_submitted, f_executed, fpc, fresult>>
    /\ UNCHANGED partVars
    /\ FileFrame

\* file.rs:85-87: insert_data returns an error; try_fold ends with it and
\* `?` returns it from process_file
InsertFails ==
    /\ fpc = "running"
    /\ insert_job # None
    /\ insert_job' = None
    /\ \E kind \in WriterErrors : fresult' = Some(Err(kind, None))
    /\ fpc' = "returned"
    /\ UNCHANGED <<reader_error, batched, inflight, f_submitted, f_executed, f_inserted,
                   f_acc>>
    /\ UNCHANGED partVars
    /\ FileFrame

\* file.rs:82-89: the reader task is gone, every channel is drained and
\* every partition's stream has ended; try_fold returns acc
PipelineEnd ==
    /\ fpc = "running"
    /\ insert_job = None
    /\ rpc = "done"
    /\ \A p \in Partitions :
          chan[p] = <<>> /\ batched[p] = Len(received[p]) /\ inflight[p] = <<>>
    /\ fresult' = Some(Ok(f_acc))
    /\ fpc' = "returned"
    /\ UNCHANGED <<reader_error, batched, inflight, f_submitted, f_executed, f_inserted,
                   insert_job, f_acc>>
    /\ UNCHANGED partVars
    /\ FileFrame

FileNext ==
    \/ ReaderOpen
    \/ ReaderOpenFails
    \/ ReaderNext
    \/ ReaderSend
    \/ ReaderSendFails
    \/ ReaderFrameError
    \/ ReaderEnd
    \/ \E p \in Partitions : ConsumerRecv(p)
    \/ \E p \in Partitions : SubmitBatch(p)
    \/ \E p \in Partitions : ToJsonFails(p)
    \/ \E p \in Partitions : ScriptDone(p)
    \/ \E p \in Partitions : TakeResult(p)
    \/ InsertOk
    \/ InsertFails
    \/ PipelineEnd

(***************************************************************************)
(*                     PROPERTIES OF THE FILE PIPELINE                     *)
(***************************************************************************)

\* The rows written by the batches inserted so far.
InsertedRows ==
    LET all == Flatten([p \in 1 .. num_partitions |-> Flatten(f_inserted[p - 1])])
    IN  Len(all)

\* main.rs:96-121: the File command prints the count and exits 0 when
\* process_file returns Ok, and exits with an error otherwise
ExitCode == IF Unwrap(fresult).ok THEN 0 ELSE 1

\* The failures that cost one batch and no more.
BatchLevelErrors ==
    {"ScriptExecFailed", "ResultParseFailed", "UpstreamScriptError",
     "MalformedTransformResult", "MissingColumn", "TypeMismatch"}

\* C16: in the file pipeline a batch-level failure (script execution
\* failure, unparseable result, success=false, malformed result, missing
\* column, type mismatch) drops only that batch: the batches after it are
\* still transformed and inserted, so process_file never returns such a
\* failure, and it finishes with the count of the rows that were inserted.
C16_BatchFailureDropsOnlyBatch ==
    fpc = "returned" =>
        /\ Unwrap(fresult).err \notin BatchLevelErrors
        /\ Unwrap(fresult).ok => Unwrap(fresult).rows = InsertedRows

\* C17: a record whose payload fails protobuf decoding is dropped alone:
\* the records that follow it in the file are still read and routed, so
\* the reader does not finish while records are left.
C17_UndecodableRecordDroppedAlone ==
    (reader_error = "DecodeFailed" /\ rpc = "done") => messages = <<>>

\* C18: a fatal error of the frame reader (bad descriptor set, unknown
\* type, key that is not UTF-8, file that ends inside a record) ends the
\* pipeline with an error: process_file returns no success count and the
\* process does not exit 0.
C18_FatalReaderErrorFailsPipeline ==
    (fpc = "returned"
        /\ reader_error \in HeaderErrors \cup {"BadUtf8Key", "MalformedFrame"}) =>
        /\ ~Unwrap(fresult).ok
        /\ ExitCode # 0

IsPrefix(a, b) == Len(a) <= Len(b) /\ SubSeq(b, 1, Len(a)) = a

\* C19: for each partition, batches are submitted to the pool, executed and
\* inserted in the order the batcher emitted them, whichever worker is
\* picked: the submitted batches are consecutive runs of the records
\* received, the executed batches are the first submitted ones, and the
\* inserted batches are the first executed ones.
C19_PerPartitionBatchOrder ==
    \A p \in Partitions :
        /\ IsPrefix(Flatten(f_submitted[p]),
                    [i \in DOMAIN received[p] |-> received[p][i].id])
        /\ IsPrefix(f_executed[p], f_submitted[p])
        /\ IsPrefix(f_inserted[p], f_executed[p])

\* Two batches of one partition were inserted in their order, a third ran
\* on the second worker, and another partition had a batch inserted too.
C19_Witness ==
    \E p, q \in Partitions :
        /\ p # q
        /\ Len(f_inserted[p]) = 2
        /\ Len(f_executed[p]) = 3
        /\ inflight[p] # <<>>
        /\ inflight[p][1].worker = 2
        /\ inflight[p][1].state = "ok"
        /\ f_inserted[q] # <<>>

\* C40: the file pipeline runs one insert_data call at a time and has at
\* most one batch of a partition at the pool; while a partition's batch is
\* at the pool or its result is not yet taken, the partition receives no
\* record and submits no batch; while an insert is pending, no partition
\* receives a record, submits a batch or has a result taken, and no other
\* insert starts.
C40_OneInsertOneBatchPerPartition ==
    /\ [](\A p \in Partitions : Len(inflight[p]) <= 1)
    /\ [][\A p \in Partitions :
            inflight[p] # <<>> =>
                /\ received'[p] = received[p]
                /\ batched'[p] = batched[p]
                /\ f_submitted'[p] = f_submitted[p]
                /\ inflight'[p] # <<>> => inflight'[p][1].batch = inflight[p][1].batch
         ]_vars
    /\ [][insert_job # None =>
            /\ received' = received
            /\ batched' = batched
            /\ f_submitted' = f_submitted
            /\ \A p \in Partitions : Len(inflight'[p]) = Len(inflight[p])
            /\ insert_job' \in {insert_job, None}
         ]_vars
    /\ [][(insert_job = None /\ insert_job' # None) =>
            \E p \in Partitions :
                /\ inflight[p] # <<>>
                /\ inflight[p][1].state = "ok"
                /\ Unwrap(insert_job') = [partition |-> p, batch |-> inflight[p][1].batch]
                /\ inflight'[p] = <<>>
         ]_vars

\* An insert is pending while another partition has records waiting in its
\* channel and a script result ready that is not taken.
C40_Witness ==
    /\ insert_job # None
    /\ \E q \in Partitions :
          /\ q # Unwrap(insert_job).partition
          /\ chan[q] # <<>>
          /\ inflight[q] # <<>>
          /\ inflight[q][1].state = "ok"
    /\ \E p \in Partitions : chan[p] # <<>> /\ inflight[p] = <<>>

\* The records of the file: those not yet read and those a partition received.
RecordsOfFile ==
    Len(messages) + Len(Flatten([p \in 1 .. num_partitions |-> received[p - 1]]))

\* C26: the count process_file returns is the sum of the row counts that
\* insert_data returned over all batches of all partitions; when the k
\* records of the file each became one row and nothing failed, it is k.
C26_CountIsSumOfInserted ==
    (fpc = "returned" /\ Unwrap(fresult).ok) =>
        /\ Unwrap(fresult).rows
               = Len(Flatten([p \in 1 .. num_partitions |-> Flatten(f_inserted[p - 1])]))
        /\ reader_error = "none" => Unwrap(fresult).rows = RecordsOfFile

\* The two records of a file were inserted by two calls of insert_data
\* and process_file returned 2.
C26_Witness ==
    /\ fpc = "returned"
    /\ reader_error = "none"
    /\ fresult = Some(Ok(2))
    /\ RecordsOfFile = 2
    /\ \E p \in Partitions : Len(f_inserted[p]) = 1
    /\ Len(Flatten([p \in 1 .. num_partitions |-> f_inserted[p - 1]])) = 2

\* process_file has returned a count and the reader task met no error.
CompletedClean ==
    /\ fpc = "returned"
    /\ Unwrap(fresult).ok
    /\ reader_error = "none"

\* C35: the file pipeline ends for every finite file: process_file returns.
\* When no batch failed, it returns after the reader has routed its last
\* record and ended, with every channel drained, every received record in
\* a batch, and every batch transformed and inserted.
C35_PipelineCompletes ==
    /\ <>(fpc = "returned")
    /\ [](CompletedClean =>
            /\ rpc = "done"
            /\ messages = <<>>
            /\ pending = NoPending
            /\ insert_job = None
            /\ \A p \in Partitions :
                  /\ chan[p] = <<>>
                  /\ batched[p] = Len(received[p])
                  /\ inflight[p] = <<>>
                  /\ f_inserted[p] = f_submitted[p])

\* A file of two records went through two partitions, one batch each, and
\* process_file returned after the reader task had ended.
C35_Witness ==
    /\ CompletedClean
    /\ rpc = "done"
    /\ success_count = 2
    /\ \E p, q \in Partitions :
          /\ p # q
          /\ Len(f_inserted[p]) = 1
          /\ Len(f_inserted[q]) = 1
          /\ chan[p] = <<>> /\ chan[q] = <<>>

(***************************************************************************)
(*        SCRIPT RUNTIME POOL  (spec 4.5; used at file.rs:35, 74-77)       *)
(***************************************************************************)

\* The number of execute calls followed.
MaxSubmissions == 3
CallIds == 1 .. MaxSubmissions

\* The batches passed to execute.
PoolBatches == {<<1, 2>>}

\* What shutdown queues in a mailbox; the calls are numbered from 1.
ShutdownSentinel == 0

NoSubmission == [batch |-> <<>>, worker |-> 0]

\* What the script makes of a batch on the run of call id: one row per
\* message of the batch.
RunTransform(id, b) == [run |-> id, success |-> TRUE, data |-> b]

PoolInit ==
    /\ calls = 0
    /\ submission = [id \in CallIds |-> NoSubmission]
    /\ futures = [id \in CallIds |-> "unused"]
    /\ replies = [id \in CallIds |-> None]
    /\ mailbox = [w \in Workers |-> <<>>]
    /\ running = [w \in Workers |-> 0]
    /\ holder = [w \in Workers |-> 0]
    /\ rr_counter = 0
    /\ discarded = {}
    /\ dropped_running = {}
    /\ dead = {}
    /\ shutdown_pc = "open"
    /\ sentinel_sent = {}
    /\ stopped = {}
    /\ joined = {}

PoolIdle == PoolInit

\* (mutant) the idle mailboxes are tried from the last worker to the first
LastIdleWorker ==
    IF \E w \in Workers : holder[w] = 0
    THEN CHOOSE w \in Workers : holder[w] = 0 /\ \A v \in Workers : holder[v] = 0 => w >= v
    ELSE 0

\* The first worker, in worker order, whose mailbox no call holds (0: none).
FirstIdleWorker ==
    IF \E w \in Workers : holder[w] = 0
    THEN CHOOSE w \in Workers : holder[w] = 0 /\ \A v \in Workers : holder[v] = 0 => w <= v
    ELSE 0

\* execute(batch): an idle mailbox is taken without waiting, in worker
\* order, and the batch is queued there; if there is none, the call picks a
\* worker by the shared counter and waits for its mailbox.
Execute ==
    /\ calls < MaxSubmissions
    /\ \E b \in PoolBatches :
        LET id == calls + 1
            w == FirstIdleWorker
            rr == (rr_counter % Cardinality(Workers)) + 1
        IN  IF w # 0
            THEN /\ submission' = [submission EXCEPT ![id] = [batch |-> b, worker |-> w]]
                 /\ holder' = [holder EXCEPT ![w] = id]
                 /\ mailbox' = [mailbox EXCEPT ![w] = Append(@, id)]
                 /\ futures' = [futures EXCEPT ![id] = "waiting"]
                 /\ UNCHANGED rr_counter
            ELSE /\ submission' = [submission EXCEPT ![id] = [batch |-> b, worker |-> rr]]
                 /\ futures' = [futures EXCEPT ![id] = "blocked"]
                 /\ rr_counter' = (rr_counter + 1) % Cardinality(Workers)
                 /\ UNCHANGED <<holder, mailbox>>
    /\ calls' = calls + 1
    /\ UNCHANGED <<replies, running, discarded, dropped_running, dead, shutdownVars>>
    /\ PoolFrame

\* A call that waited for its worker's mailbox gets it and queues its batch.
AcquireMailbox(id) ==
    /\ futures[id] = "blocked"
    /\ holder[submission[id].worker] = 0
    /\ holder' = [holder EXCEPT ![submission[id].worker] = id]
    /\ mailbox' = [mailbox EXCEPT ![submission[id].worker] = Append(@, id)]
    /\ futures' = [futures EXCEPT ![id] = "waiting"]
    /\ UNCHANGED <<calls, submission, replies, running, rr_counter, discarded,
                   dropped_running, dead, shutdownVars>>
    /\ PoolFrame

\* (mutant) the worker takes the submission that was queued last
WorkerStartsNewest(w) ==
    /\ w \notin dead
    /\ w \notin stopped
    /\ running[w] = 0
    /\ mailbox[w] # <<>>
    /\ mailbox[w][Len(mailbox[w])] # ShutdownSentinel
    /\ running' = [running EXCEPT ![w] = mailbox[w][Len(mailbox[w])]]
    /\ mailbox' = [mailbox EXCEPT ![w] = SubSeq(@, 1, Len(@) - 1)]
    /\ UNCHANGED <<calls, submission, futures, replies, holder, rr_counter, discarded,
                   dropped_running, dead, shutdownVars>>
    /\ PoolFrame

\* The worker takes its oldest queued submission and starts the script.
WorkerStart(w) ==
    /\ w \notin dead
    /\ w \notin stopped
    /\ running[w] = 0
    /\ mailbox[w] # <<>>
    /\ Head(mailbox[w]) # ShutdownSentinel
    /\ running' = [running EXCEPT ![w] = Head(mailbox[w])]
    /\ mailbox' = [mailbox EXCEPT ![w] = Tail(@)]
    /\ UNCHANGED <<calls, submission, futures, replies, holder, rr_counter, discarded,
                   dropped_running, dead, shutdownVars>>
    /\ PoolFrame

\* (mutant) one reply slot per worker: the result goes to whoever holds the
\* worker's mailbox
ReplyToHolder(w, id) == holder[w]

\* The call that receives the result of submission id: each submission
\* carries its own reply slot.
ReplyTarget(w, id) == id

\* The script run ends: the result resolves the future of the submission if
\* it is still held, and is thrown away if the future was dropped.
WorkerFinish(w) ==
    /\ w \notin dead
    /\ running[w] # 0
    /\ LET id == running[w]
           t == ReplyTarget(w, id)
       IN  IF t # 0 /\ futures[t] = "waiting"
           THEN /\ replies' = [replies EXCEPT ![t] =
                                  Some(RunTransform(id, submission[id].batch))]
                /\ futures' = [futures EXCEPT ![t] = "resolved"]
                /\ holder' = [holder EXCEPT ![w] = IF @ = t THEN 0 ELSE @]
                /\ UNCHANGED discarded
           ELSE /\ discarded' = discarded \cup {id}
                /\ UNCHANGED <<replies, futures, holder>>
    /\ running' = [running EXCEPT ![w] = 0]
    /\ UNCHANGED <<calls, submission, mailbox, rr_counter, dropped_running, dead, shutdownVars>>
    /\ PoolFrame

\* The caller drops the future of call id: a held mailbox is released; what
\* is queued or running at the worker stays.
DropFuture(id) ==
    /\ futures[id] \in {"waiting", "blocked"}
    /\ futures' = [futures EXCEPT ![id] = "dropped"]
    /\ holder' = [w \in Workers |-> IF holder[w] = id THEN 0 ELSE holder[w]]
    /\ dropped_running' =
          IF \E w \in Workers : running[w] = id
          THEN dropped_running \cup {id} ELSE dropped_running
    /\ UNCHANGED <<calls, submission, replies, mailbox, running, rr_counter, discarded,
                   dead, shutdownVars>>
    /\ PoolFrame

\* What a future resolves to when its worker is gone.
WorkerDied == [run |-> 0, success |-> FALSE, data |-> <<>>]

\* The thread of worker w panics: it serves nothing any more and the reply
\* slots of its running and queued submissions are gone with it.
WorkerPanics(w) ==
    /\ w \notin dead
    /\ dead' = dead \cup {w}
    /\ UNCHANGED <<calls, submission, futures, replies, mailbox, running, holder,
                   rr_counter, discarded, dropped_running, shutdownVars>>
    /\ PoolFrame

\* (mutant) a call keeps waiting for the reply of a dead worker
NeverNoticed(id) == FALSE

\* The call's submission is at a worker whose thread is gone, so no reply
\* can come.
ReplyLost(id) == futures[id] = "waiting" /\ submission[id].worker \in dead

\* execute finds the worker gone and resolves with WorkerDied, releasing
\* the worker's mailbox.
SurfaceWorkerDied(id) ==
    /\ ReplyLost(id)
    /\ futures' = [futures EXCEPT ![id] = "resolved"]
    /\ replies' = [replies EXCEPT ![id] = Some(WorkerDied)]
    /\ holder' = [w \in Workers |-> IF holder[w] = id THEN 0 ELSE holder[w]]
    /\ UNCHANGED <<calls, submission, mailbox, running, rr_counter, discarded,
                   dropped_running, dead, shutdownVars>>
    /\ PoolFrame

\* shutdown is called on the pool.
BeginShutdown ==
    /\ shutdown_pc = "open"
    /\ shutdown_pc' = "sending"
    /\ UNCHANGED <<calls, submission, futures, replies, mailbox, running, holder,
                   rr_counter, discarded, dropped_running, dead, sentinel_sent, stopped,
                   joined>>
    /\ PoolFrame

\* shutdown sends the Shutdown sentinel to worker w, in worker order: it is
\* queued behind what the mailbox holds.  After the last one shutdown goes
\* on to join.
SendShutdown(w) ==
    /\ shutdown_pc = "sending"
    /\ w \notin sentinel_sent
    /\ \A v \in Workers : v < w => v \in sentinel_sent
    /\ mailbox' = [mailbox EXCEPT ![w] = Append(@, ShutdownSentinel)]
    /\ sentinel_sent' = sentinel_sent \cup {w}
    /\ shutdown_pc' = IF sentinel_sent' = Workers THEN "joining" ELSE "sending"
    /\ UNCHANGED <<calls, submission, futures, replies, running, holder, rr_counter,
                   discarded, dropped_running, dead, stopped, joined>>
    /\ PoolFrame

\* (mutant) the worker leaves its loop as soon as a sentinel is in its
\* mailbox, whatever is queued before it
WorkerStopsAtOnce(w) ==
    /\ w \notin dead
    /\ w \notin stopped
    /\ running[w] = 0
    /\ \E i \in DOMAIN mailbox[w] : mailbox[w][i] = ShutdownSentinel
    /\ stopped' = stopped \cup {w}
    /\ mailbox' = [mailbox EXCEPT ![w] = <<>>]
    /\ UNCHANGED <<calls, submission, futures, replies, running, holder, rr_counter,
                   discarded, dropped_running, dead, shutdown_pc, sentinel_sent, joined>>
    /\ PoolFrame

\* The worker takes the Shutdown sentinel from its mailbox and leaves its
\* loop; what was queued behind the sentinel is never served.
WorkerStops(w) ==
    /\ w \notin dead
    /\ w \notin stopped
    /\ running[w] = 0
    /\ mailbox[w] # <<>>
    /\ Head(mailbox[w]) = ShutdownSentinel
    /\ stopped' = stopped \cup {w}
    /\ mailbox' = [mailbox EXCEPT ![w] = Tail(@)]
    /\ UNCHANGED <<calls, submission, futures, replies, running, holder, rr_counter,
                   discarded, dropped_running, dead, shutdown_pc, sentinel_sent, joined>>
    /\ PoolFrame

\* shutdown joins the thread of worker w, in worker order, once it has ended.
JoinWorker(w) ==
    /\ shutdown_pc = "joining"
    /\ w \in stopped
    /\ w \notin joined
    /\ \A v \in Workers : v < w => v \in joined
    /\ joined' = joined \cup {w}
    /\ UNCHANGED <<calls, submission, futures, replies, mailbox, running, holder,
                   rr_counter, discarded, dropped_running, dead, shutdown_pc,
                   sentinel_sent, stopped>>
    /\ PoolFrame

\* Every thread is joined: shutdown returns.
ShutdownReturns ==
    /\ shutdown_pc = "joining"
    /\ joined = Workers
    /\ shutdown_pc' = "returned"
    /\ UNCHANGED <<calls, submission, futures, replies, mailbox, running, holder,
                   rr_counter, discarded, dropped_running, dead, sentinel_sent, stopped,
                   joined>>
    /\ PoolFrame

PoolShutdownNext ==
    \/ Execute
    \/ \E id \in CallIds : AcquireMailbox(id)
    \/ \E w \in Workers : WorkerStart(w)
    \/ \E w \in Workers : WorkerFinish(w)
    \/ \E id \in CallIds : DropFuture(id)
    \/ BeginShutdown
    \/ \E w \in Workers : SendShutdown(w)
    \/ \E w \in Workers : WorkerStops(w)
    \/ \E w \in Workers : JoinWorker(w)
    \/ ShutdownReturns

PoolPanicNext ==
    \/ Execute
    \/ \E id \in CallIds : AcquireMailbox(id)
    \/ \E w \in Workers : WorkerStart(w)
    \/ \E w \in Workers : WorkerFinish(w)
    \/ \E id \in CallIds : DropFuture(id)
    \/ \E w \in Workers : WorkerPanics(w)
    \/ \E id \in CallIds : SurfaceWorkerDied(id)

PoolNext ==
    \/ Execute
    \/ \E id \in CallIds : AcquireMailbox(id)
    \/ \E w \in Workers : WorkerStart(w)
    \/ \E w \in Workers : WorkerFinish(w)
    \/ \E id \in CallIds : DropFuture(id)

(***************************************************************************)
(*                  PROPERTIES OF THE SCRIPT RUNTIME POOL                  *)
(***************************************************************************)

\* The submission of call id is queued at its worker or running there.
AtWorker(id) ==
    LET w == submission[id].worker
    IN  running[w] = id \/ \E i \in DOMAIN mailbox[w] : mailbox[w][i] = id

\* C20: dropping the future that execute returned while the script runs
\* that batch does not interrupt the run: the worker runs it to the end,
\* throws the result away and then serves its next queued submission; later
\* execute calls are neither lost nor answered with the discarded result.
C20_DroppedFutureDoesNotCancel ==
    /\ [][\A id \in CallIds :
            (futures[id] = "waiting" /\ futures'[id] = "dropped") =>
                (running' = running /\ mailbox' = mailbox)
         ]_vars
    /\ [](\A id \in discarded :
            futures[id] = "dropped" /\ replies[id] = None)
    /\ [](\A id \in CallIds :
            /\ futures[id] = "waiting" => AtWorker(id)
            /\ futures[id] = "resolved" =>
                  replies[id] = Some(RunTransform(id, submission[id].batch))
            /\ futures[id] # "resolved" => replies[id] = None)

\* A future was dropped during its script run, the run's result was thrown
\* away, and a later call on the same worker got its own result.
C20_Witness ==
    \E id, later \in CallIds :
        /\ id \in dropped_running
        /\ id \in discarded
        /\ id < later
        /\ submission[later].worker = submission[id].worker
        /\ futures[later] = "resolved"
        /\ replies[later] = Some(RunTransform(later, submission[later].batch))

\* How many times the submission of call id is queued or running at worker w.
HandedTo(id, w) ==
    Cardinality({i \in DOMAIN mailbox[w] : mailbox[w][i] = id})
        + (IF running[w] = id THEN 1 ELSE 0)

\* C32: execute hands the batch to the lowest-numbered worker whose mailbox
\* is idle at that moment; only when no mailbox is idle it picks the worker
\* of the shared round-robin counter and waits for that worker's mailbox;
\* a submitted batch is handed to one worker only, and once.
C32_DispatchPolicy ==
    /\ [][calls' = calls + 1 =>
            LET id == calls + 1
                idle == {w \in Workers : holder[w] = 0}
                to == submission'[id].worker
            IN  IF idle # {}
                THEN /\ to \in idle
                     /\ \A v \in idle : to <= v
                     /\ futures'[id] = "waiting"
                     /\ mailbox' = [mailbox EXCEPT ![to] = Append(@, id)]
                     /\ rr_counter' = rr_counter
                ELSE /\ to = (rr_counter % Cardinality(Workers)) + 1
                     /\ futures'[id] = "blocked"
                     /\ mailbox' = mailbox
                     /\ rr_counter' = (rr_counter + 1) % Cardinality(Workers)
         ]_vars
    /\ [][\A id \in CallIds :
            (futures[id] = "blocked" /\ futures'[id] = "waiting") =>
                /\ submission'[id] = submission[id]
                /\ holder[submission[id].worker] = 0
                /\ mailbox' = [mailbox EXCEPT ![submission[id].worker] = Append(@, id)]
         ]_vars
    /\ [](\A id \in CallIds :
            /\ \A w \in Workers : w # submission[id].worker => HandedTo(id, w) = 0
            /\ futures[id] \in {"unused", "blocked"} =>
                  \A w \in Workers : HandedTo(id, w) = 0
            /\ futures[id] = "waiting" => HandedTo(id, submission[id].worker) = 1
            /\ \A w \in Workers : HandedTo(id, w) <= 1)

\* The first call took worker 1, the second found only worker 2 idle, and
\* the third found no mailbox idle: it waits for the worker the counter
\* chose and the counter has moved on.
C32_Witness ==
    /\ calls = 3
    /\ submission[1].worker = 1
    /\ submission[2].worker = 2
    /\ HandedTo(2, 2) = 1
    /\ futures[3] = "blocked"
    /\ submission[3].worker = 1
    /\ rr_counter = 1

\* C33: a worker runs one submission at a time and takes them in the order
\* they were queued; a future that resolves holds the result of the run of
\* its own batch.
C33_FifoOwnResult ==
    /\ [][\A w \in Workers :
            /\ (running'[w] # running[w] /\ running'[w] # 0) =>
                  /\ running[w] = 0
                  /\ mailbox[w] # <<>>
                  /\ running'[w] = Head(mailbox[w])
                  /\ mailbox'[w] = Tail(mailbox[w])
            /\ mailbox'[w] # mailbox[w] =>
                  \/ mailbox[w] # <<>> /\ mailbox'[w] = Tail(mailbox[w])
                  \/ \E id \in CallIds : mailbox'[w] = Append(mailbox[w], id)
         ]_vars
    /\ [](\A id \in CallIds :
            IsSome(replies[id]) =>
                /\ futures[id] = "resolved"
                /\ Unwrap(replies[id]).run = id
                /\ Unwrap(replies[id]).data = submission[id].batch)

\* A submission whose future was dropped while it was queued is running,
\* the submission queued behind it waits in the mailbox, and an earlier
\* call has resolved with its own result.
C33_Witness ==
    \E w \in Workers : \E a, b, c \in CallIds :
        /\ a < b
        /\ running[w] = a
        /\ mailbox[w] = <<b>>
        /\ futures[a] = "dropped"
        /\ a \notin dropped_running
        /\ futures[b] = "waiting"
        /\ futures[c] = "resolved"
        /\ Unwrap(replies[c]).run = c

\* C34: shutdown ends.  The sentinel goes to every worker before any
\* join; a worker leaves its loop only when it runs nothing and the sentinel
\* is the oldest entry of its mailbox, so what was queued before it has been
\* run to the end; shutdown returns only with every thread joined and no
\* worker running.
C34_ShutdownTerminates ==
    /\ (shutdown_pc = "sending") ~> (shutdown_pc = "returned")
    /\ [](shutdown_pc \in {"joining", "returned"} => sentinel_sent = Workers)
    /\ [](joined \subseteq stopped)
    /\ [](shutdown_pc = "returned" =>
            /\ joined = Workers
            /\ \A w \in Workers : running[w] = 0)
    /\ [](\A w \in stopped : running[w] = 0)
    /\ [][\A w \in Workers :
            /\ (w \in stopped' /\ w \notin stopped) =>
                  /\ running[w] = 0
                  /\ mailbox[w] # <<>>
                  /\ Head(mailbox[w]) = ShutdownSentinel
            /\ (mailbox[w] # <<>> /\ mailbox'[w] = Tail(mailbox[w])) =>
                  \/ running'[w] = Head(mailbox[w])
                  \/ Head(mailbox[w]) = ShutdownSentinel /\ w \in stopped'
            /\ w \in stopped => running'[w] = 0
         ]_vars

\* shutdown has returned with both threads joined, and a submission that
\* was at its worker when shutdown went on to join was run to the end and
\* resolved its future.
C34_Witness ==
    /\ shutdown_pc = "returned"
    /\ joined = Workers
    /\ \A w \in Workers : running[w] = 0 /\ mailbox[w] = <<>>
    /\ \E id \in CallIds :
          /\ futures[id] = "resolved"
          /\ replies[id] = Some(RunTransform(id, submission[id].batch))
    /\ \E id \in CallIds : id \in discarded

\* C21: if a worker thread dies, every execute call that waits on that
\* worker, or is dispatched to it later, resolves with WorkerDied and does
\* not wait forever.
C21_WorkerDiedSurfaces ==
    /\ \A id \in CallIds :
          (futures[id] \in {"waiting", "blocked"} /\ submission[id].worker \in dead)
             ~> (futures[id] \in {"resolved", "dropped"})
    /\ [][\A id \in CallIds :
            (futures[id] = "waiting" /\ submission[id].worker \in dead
                /\ futures'[id] = "resolved") =>
                replies'[id] = Some(WorkerDied)
         ]_vars
    /\ [](\A id \in CallIds :
            replies[id] = Some(WorkerDied) => submission[id].worker \in dead)

\* A call that was dispatched to a worker after it died and a call that
\* waited on it when it died have both resolved with WorkerDied.
C21_Witness ==
    \E id, later \in CallIds :
        /\ id < later
        /\ submission[id].worker = submission[later].worker
        /\ submission[id].worker \in dead
        /\ running[submission[id].worker] = id
        /\ replies[id] = Some(WorkerDied)
        /\ replies[later] = Some(WorkerDied)
        /\ \E i \in DOMAIN mailbox[submission[later].worker] :
              mailbox[submission[later].worker][i] = later

(***************************************************************************)
(*   CANCELLATION OF THE FILE PIPELINE  (file.rs:31-89; pool: spec 4.5, 5) *)
(***************************************************************************)

\* The orchestrator is gone: process_file has returned (with a count or,
\* early, with an error) or its future was dropped.
Cancelled == fpc \in {"returned", "dropped"}

\* file.rs:84-87: the future of process_file is dropped while it waits in
\* try_fold; the streams, their receivers and a pending insert_data future
\* go with it.
DropOrchestrator ==
    /\ fpc = "running"
    /\ fpc' = "dropped"
    /\ insert_job' = None
    /\ UNCHANGED <<reader_error, batched, inflight, f_submitted, f_executed, f_inserted,
                   f_acc, fresult>>
    /\ UNCHANGED partVars
    /\ FileFrame

\* The script run of a batch whose execute future is gone ends; its result
\* is thrown away.
ScriptDiscarded(p) ==
    /\ Cancelled
    /\ \E i \in DOMAIN inflight[p] :
        /\ inflight[p][i].state = "running"
        /\ inflight' = [inflight EXCEPT ![p][i].state = "discarded"]
        /\ f_executed' = [f_executed EXCEPT ![p] = Append(@, inflight[p][i].batch)]
    /\ UNCHANGED <<reader_error, batched, f_submitted, f_inserted, insert_job, f_acc, fpc,
                   fresult>>
    /\ UNCHANGED partVars
    /\ FileFrame

\* Worker w runs the script on a batch of the file pipeline.
BusyWorker(w) ==
    \E p \in Partitions : \E i \in DOMAIN inflight[p] :
        inflight[p][i].worker = w /\ inflight[p][i].state = "running"

\* file.rs:35: js_pool is a local of process_file; with the orchestrator
\* gone it is dropped and the pool shuts down.
DropPool == Cancelled /\ BeginShutdown

\* A worker of the dropped pool ends its script run before it takes the
\* sentinel.
PoolWorkerStops(w) == ~BusyWorker(w) /\ WorkerStops(w)

FileCancelNext ==
    \/ FileNext
    \/ DropOrchestrator
    \/ \E p \in Partitions : ScriptDiscarded(p)
    \/ DropPool
    \/ \E w \in Workers : SendShutdown(w)
    \/ \E w \in Workers : PoolWorkerStops(w)
    \/ \E w \in Workers : JoinWorker(w)
    \/ ShutdownReturns

\* C36: once the orchestrator is gone (process_file returned early or its
\* future was dropped) no record enters or leaves a partition channel, no
\* batch is submitted or inserted, the reader task ends at its next send
\* with a send error and not later than that, and the pool's workers are
\* sent the sentinel, end their script runs and are joined.
C36_CancelStopsPipeline ==
    /\ [][Cancelled =>
            /\ Cancelled'
            /\ chan' = chan
            /\ received' = received
            /\ success_count' = success_count
            /\ f_submitted' = f_submitted
            /\ f_inserted' = f_inserted
            /\ (rpc = "send" /\ rpc' # rpc) =>
                  rpc' = "done" /\ reader_error' = "SendError"
         ]_vars
    /\ Cancelled ~>
          /\ rpc = "done"
          /\ shutdown_pc = "returned"
          /\ joined = Workers
          /\ \A w \in Workers : ~BusyWorker(w)

\* The future of process_file was dropped while the reader task waited in
\* send on a full channel: the task has ended with a send error, the record
\* it held was not sent, and the workers are joined.
C36_Witness ==
    /\ fpc = "dropped"
    /\ rpc = "done"
    /\ reader_error = "SendError"
    /\ \E p \in Partitions : Len(chan[p]) = ChannelCapacity
    /\ success_count = ChannelCapacity
    /\ messages = <<>>
    /\ shutdown_pc = "returned"
    /\ joined = Workers

(***************************************************************************)
(*           BROKER CONSUME LOOP  (kafka.rs, consume_messages)             *)
(***************************************************************************)

\* The number of recv() results followed.
MaxMessages == 3

\* What recv() returns: an error, or a message with an offset whose payload
\* is absent, is processed well, or fails in process_message.
RecvKinds == {"error", "empty", "good", "bad"}
BrokerFeed(kinds) == [i \in 1 .. Len(kinds) |-> [offset |-> i, kind |-> kinds[i]]]

KafkaInit ==
    /\ broker \in {BrokerFeed(kinds) : kinds \in SeqsUpTo(RecvKinds, MaxMessages)}
    /\ msg = None
    /\ kpc = "recv"
    /\ handled = <<>>
    /\ commits = <<>>

KafkaIdle ==
    /\ broker = <<>>
    /\ msg = None
    /\ kpc = "off"
    /\ handled = <<>>
    /\ commits = <<>>

\* kafka.rs:66-67, 100-102: recv() returns a message, or an error that is
\* logged before the loop calls recv() again
Recv ==
    /\ kpc = "recv"
    /\ broker # <<>>
    /\ broker' = Tail(broker)
    /\ IF Head(broker).kind = "error"
       THEN UNCHANGED <<msg, kpc>>
       ELSE msg' = Some(Head(broker)) /\ kpc' = "payload"
    /\ UNCHANGED <<handled, commits>>
    /\ KafkaFrame

\* kafka.rs:68-75, 78-86: a message without payload goes straight to the
\* commit; with a payload process_message runs to its end
ProcessMessage ==
    /\ kpc = "payload"
    /\ handled' = Append(handled,
                         [offset |-> Unwrap(msg).offset,
                          outcome |-> CASE Unwrap(msg).kind = "empty" -> "skipped"
                                        [] Unwrap(msg).kind = "good" -> "ok"
                                        [] OTHER -> "failed"])
    /\ kpc' = "commit"
    /\ UNCHANGED <<broker, msg, commits>>
    /\ KafkaFrame

\* kafka.rs:72, 89, 97: commit_message(&msg, CommitMode::Async) returns Ok;
\* the loop goes on (continue, or the end of the match)
CommitMessage ==
    /\ kpc = "commit"
    /\ commits' = Append(commits, Unwrap(msg).offset)
    /\ msg' = None
    /\ kpc' = "recv"
    /\ UNCHANGED <<broker, handled>>
    /\ KafkaFrame

\* kafka.rs:72, 89, 97: commit_message returns Err and unwrap() panics:
\* consume_messages ends there
CommitFails ==
    /\ kpc = "commit"
    /\ kpc' = "panicked"
    /\ UNCHANGED <<broker, msg, handled, commits>>
    /\ KafkaFrame

KafkaNext ==
    \/ Recv
    \/ ProcessMessage
    \/ CommitMessage
    \/ CommitFails

\* How often x occurs in the sequence s.
Count(s, x) == Cardinality({i \in DOMAIN s : s[i] = x})

\* C22: in the consume loop every received message (payload absent,
\* processing succeeded, processing failed) has its offset committed once,
\* the commit comes only after the processing of that message has ended,
\* and the loop goes on to the next message; a receive error commits
\* nothing and does not stop the loop.
C22_CommitOncePerMessage ==
    /\ kpc \in {"recv", "payload", "commit"}
    /\ \A i \in DOMAIN handled :
          Count(commits, handled[i].offset) =
              IF kpc = "commit" /\ i = Len(handled) THEN 0 ELSE 1
    /\ \A i \in DOMAIN commits :
          \E j \in DOMAIN handled : handled[j].offset = commits[i]
    /\ kpc = "recv" => msg = None

(***************************************************************************)
(*      BROKER PAYLOAD DECODER  (protobuf.rs, decode_dynamic_message)      *)
(***************************************************************************)

\* The longest payload followed, and the bytes it is made of: the magic
\* byte 0 and a byte of a protobuf field.
MaxPayloadLen == 7
PayloadBytes == {0, 8}

\* protobuf.rs:153-154: the length of the magic byte and the schema id
PrefixLen == 5

\* protobuf.rs:153-157: the bytes that are decoded
StripPrefix(bytes) ==
    IF Len(bytes) > PrefixLen /\ bytes[1] = 0
    THEN SubSeq(bytes, PrefixLen + 1, Len(bytes))
    ELSE bytes

DecodeInit ==
    /\ payload \in SeqsUpTo(PayloadBytes, MaxPayloadLen)
    /\ message_bytes = <<>>
    /\ dpc = "start"

DecodeIdle ==
    /\ payload = <<>>
    /\ message_bytes = <<>>
    /\ dpc = "off"

\* protobuf.rs:147-157: decode_dynamic_message picks the bytes to decode
DecodeDynamicMessage ==
    /\ dpc = "start"
    /\ message_bytes' = StripPrefix(payload)
    /\ dpc' = "done"
    /\ UNCHANGED payload
    /\ DecodeFrame

DecodeNext == DecodeDynamicMessage

\* C23: for every broker payload whose byte 0 is 0x00 the decoder removes
\* exactly the first 5 bytes before protobuf decoding, and every other
\* payload is decoded unchanged.
C23_PrefixStripped ==
    dpc = "done" =>
        IF Len(payload) >= PrefixLen /\ payload[1] = 0
        THEN message_bytes = SubSeq(payload, PrefixLen + 1, Len(payload))
        ELSE (payload # <<>> /\ payload[1] = 0) \/ message_bytes = payload

(***************************************************************************)
(*          THE FRAME READER (file.rs, read_pool_and_messages)             *)
(* The file is a little-endian u32 record count, a u32 descriptor set      *)
(* length, the descriptor set, and per record a u32 key length, the key,   *)
(* a u32 payload length and the payload.  The reader sees the first `cut`  *)
(* bytes of it.  Keys are bytes; 255 is a byte no UTF-8 text holds.  A     *)
(* payload is a serialized message of one varint field (tag byte 8, then   *)
(* the value).                                                             *)
(***************************************************************************)
MaxFrames == 2
FrameKeys == {<<>>, <<65>>, <<255>>}
FramePayloads == {<<>>, <<8, 1>>, <<8>>}
FrameRecords == [key : FrameKeys, payload : FramePayloads]
PoolBytes == <<10>>

\* u32::to_le_bytes
ToLeBytes(n) ==
    <<n % 256, (n \div 256) % 256, (n \div 65536) % 256, (n \div 16777216) % 256>>

\* (mutant) the length is read most significant byte first
FromBeBytes(b) == b[4] + 256 * b[3] + 65536 * b[2] + 16777216 * b[1]

\* file.rs:102, 112, 155, 168: u32::from_le_bytes
FromLeBytes(b) == b[1] + 256 * b[2] + 65536 * b[3] + 16777216 * b[4]

\* spec 6: one record in the on-disk layout
WriteFrame(r) ==
    ToLeBytes(Len(r.key)) \o r.key \o ToLeBytes(Len(r.payload)) \o r.payload

\* spec 6: the on-disk layout, after decompression
WriteFile(records) ==
    ToLeBytes(Len(records)) \o ToLeBytes(Len(PoolBytes)) \o PoolBytes
        \o Flatten([i \in 1..Len(records) |-> WriteFrame(records[i])])

\* Read::read_exact: the n bytes and what follows them, or UnexpectedEof
ReadExact(bytes, n) ==
    IF Len(bytes) >= n
    THEN Some([buf |-> SubSeq(bytes, 1, n), rest |-> SubSeq(bytes, n + 1, Len(bytes))])
    ELSE None

\* file.rs:163: String::from_utf8 on bytes that are ASCII or 255
FromUtf8(bytes) ==
    IF \A i \in 1..Len(bytes) : bytes[i] < 128 THEN Some(bytes) ELSE None

RECURSIVE DecodeFields(_, _)
\* file.rs:179: DynamicMessage::decode, a run of (tag 8, value) pairs; a
\* later value of the field replaces an earlier one
DecodeFields(bytes, message) ==
    IF bytes = <<>> THEN Some(message)
    ELSE IF Len(bytes) >= 2 /\ bytes[1] = 8 /\ bytes[2] < 128
         THEN DecodeFields(SubSeq(bytes, 3, Len(bytes)), [message EXCEPT !.id = bytes[2]])
         ELSE None
DecodeMessage(bytes) == DecodeFields(bytes, [id |-> 0])

FrameBreak == [kind |-> "break", key |-> <<>>, message |-> [id |-> 0], rest |-> <<>>,
               error |-> ""]
FrameErr(e) == [kind |-> "error", key |-> <<>>, message |-> [id |-> 0], rest |-> <<>>,
                error |-> e]
FrameYield(k, m, r) == [kind |-> "yield", key |-> k, message |-> m, rest |-> r,
                        error |-> ""]

\* file.rs:150-198: one pass of the loop of read_messages over the bytes left
ReadMessagesPass(bytes) ==
    LET kl == ReadExact(bytes, 4) IN
    IF ~IsSome(kl) THEN FrameBreak
    ELSE
    LET key_len == FromLeBytes(Unwrap(kl).buf)
        kb == ReadExact(Unwrap(kl).rest, key_len) IN
    IF ~IsSome(kb) THEN FrameErr("Couldn't read message key bytes")
    ELSE
    LET key == FromUtf8(Unwrap(kb).buf) IN
    IF ~IsSome(key) THEN FrameErr("FromUtf8Error")
    ELSE
    LET ml == ReadExact(Unwrap(kb).rest, 4) IN
    IF ~IsSome(ml) THEN FrameBreak
    ELSE
    LET msg_len == FromLeBytes(Unwrap(ml).buf)
        mb == ReadExact(Unwrap(ml).rest, msg_len) IN
    IF ~IsSome(mb) THEN FrameErr("Couldn't read message bytes")
    ELSE
    LET message == DecodeMessage(Unwrap(mb).buf) IN
    IF ~IsSome(message) THEN FrameErr("Failed to decode message")
    ELSE FrameYield(Unwrap(key), Unwrap(message), Unwrap(mb).rest)

FrameInit ==
    /\ file_records \in SeqsUpTo(FrameRecords, MaxFrames)
    /\ cut \in 0..Len(WriteFile(file_records))
    /\ reader = SubSeq(WriteFile(file_records), 1, cut)
    /\ num_messages = None
    /\ frames = <<>>
    /\ frpc = "closed"
    /\ frame_error = ""

FrameIdle ==
    /\ file_records = <<>>
    /\ cut = 0
    /\ reader = <<>>
    /\ num_messages = None
    /\ frames = <<>>
    /\ frpc = "off"
    /\ frame_error = ""

FrameFails(e) ==
    /\ frpc' = "failed"
    /\ frame_error' = e
    /\ reader' = <<>>

\* file.rs:92-135: the header, the descriptor set length and the descriptor set
ReadPoolAndMessages ==
    /\ frpc = "closed"
    /\ LET nm == ReadExact(reader, 4) IN
       IF ~IsSome(nm)
       THEN FrameFails("Failed to read num messages") /\ UNCHANGED num_messages
       ELSE
       LET pl == ReadExact(Unwrap(nm).rest, 4) IN
       IF ~IsSome(pl)
       THEN FrameFails("Failed to read pool length") /\ UNCHANGED num_messages
       ELSE
       LET pool_len == FromLeBytes(Unwrap(pl).buf)
           pb == ReadExact(Unwrap(pl).rest, pool_len) IN
       IF ~IsSome(pb)
       THEN FrameFails("Failed to read pool bytes") /\ UNCHANGED num_messages
       ELSE IF Unwrap(pb).buf # PoolBytes
       THEN FrameFails("Failed to decode FileDescriptorSet") /\ UNCHANGED num_messages
       ELSE /\ num_messages' = Some(FromLeBytes(Unwrap(nm).buf))
            /\ reader' = Unwrap(pb).rest
            /\ frpc' = "reading"
            /\ UNCHANGED frame_error
    /\ UNCHANGED <<file_records, cut, frames>>
    /\ FrameFrame

\* file.rs:150-198: the stream is polled for its next item
ReadMessages ==
    /\ frpc = "reading"
    /\ LET pass == ReadMessagesPass(reader) IN
       /\ reader' = pass.rest
       /\ frames' = IF pass.kind = "yield"
                    THEN Append(frames, [key |-> pass.key, message |-> pass.message])
                    ELSE frames
       /\ frpc' = CASE pass.kind = "yield" -> "reading"
                    [] pass.kind = "break" -> "ended"
                    [] OTHER -> "failed"
       /\ frame_error' = pass.error
    /\ UNCHANGED <<file_records, cut, num_messages>>
    /\ FrameFrame

FrameNext == ReadPoolAndMessages \/ ReadMessages

\* the offset at which the k-th record of the file ends
RecordBoundary(k) == Len(WriteFile(SubSeq(file_records, 1, k)))
RecordBoundaries == {RecordBoundary(k) : k \in 0..Len(file_records)}
\* what reading the records back has to yield
ReadBack(records) ==
    [i \in 1..Len(records) |->
        [key |-> Unwrap(FromUtf8(records[i].key)),
         message |-> Unwrap(DecodeMessage(records[i].payload))]]
WellFormedRecords(records) ==
    \A i \in 1..Len(records) :
        IsSome(FromUtf8(records[i].key)) /\ IsSome(DecodeMessage(records[i].payload))
WholeFile == cut = Len(WriteFile(file_records))

C25_TruncationDistinguished ==
    /\ frpc = "ended" => cut \in RecordBoundaries
    /\ \A k \in 0..Len(file_records) :
           (cut = RecordBoundary(k) /\ WellFormedRecords(SubSeq(file_records, 1, k))) =>
               /\ frpc # "failed"
               /\ frpc = "ended" => frames = ReadBack(SubSeq(file_records, 1, k))

(***************************************************************************)
(*        THE BATCH TRANSFORM (deno.rs, transform_messages_batch)          *)
(* A message carries its id and what the user script does with it:         *)
(* return data, return success without data, report success=false with or  *)
(* without an error text, throw, or return nothing at all.                 *)
(***************************************************************************)
MaxBatchLen == 3
ScriptBehaviours == {"data", "nodata", "false", "false_noerror", "throws", "undefined"}
TransformMessages == [id : {1, 2}, does : ScriptBehaviours]

\* a JavaScript value of the results array: undefined, or an object with
\* the fields success, data and error (None where the field is absent or null)
JsUndefined == [defined |-> FALSE, success |-> FALSE, data |-> None, error |-> None]
JsObject(s, d, e) == [defined |-> TRUE, success |-> s, data |-> d, error |-> e]

\* the values transform_messages_batch returns
EmptyObject == [kind |-> "object", id |-> 0, error |-> ""]
DataOf(id) == [kind |-> "data", id |-> id, error |-> ""]
Placeholder(error_msg) == [kind |-> "placeholder", id |-> 0, error |-> error_msg]

TOk(values) == [ok |-> TRUE, values |-> values, err |-> ""]
TErr(e) == [ok |-> FALSE, values |-> <<>>, err |-> e]

\* deno.rs:103-113: the body of the script's loop for one input: the value of
\* transform(input), or the object pushed by the catch block
ScriptPush(m) ==
    CASE m.does = "data" -> JsObject(TRUE, Some(DataOf(m.id)), None)
      [] m.does = "nodata" -> JsObject(TRUE, None, None)
      [] m.does = "false" -> JsObject(FALSE, None, Some("rejected"))
      [] m.does = "false_noerror" -> JsObject(FALSE, None, None)
      [] m.does = "throws" -> JsObject(FALSE, None, Some("Error: thrown"))
      [] OTHER -> JsUndefined

\* deno.rs:115, 136-137: JSON.stringify(results) parsed as
\* Vec<TransformResult>; undefined is written as null, which is no TransformResult
ParseResults(results) ==
    IF \A i \in 1..Len(results) : results[i].defined THEN Some(results) ELSE None

\* (mutant) the failed results are left out
CollectSuccessful(transform_results) ==
    LET ok == SelectSeq(transform_results, LAMBDA r : r.success)
    IN  [i \in 1..Len(ok) |-> IF IsSome(ok[i].data) THEN Unwrap(ok[i].data) ELSE EmptyObject]

\* deno.rs:140-154: one value per parsed result, at its position
CollectResults(transform_results) ==
    [i \in 1..Len(transform_results) |->
        LET r == transform_results[i] IN
        IF ~r.success
        THEN Placeholder(IF IsSome(r.error) THEN Unwrap(r.error) ELSE "")
        ELSE IF IsSome(r.data) THEN Unwrap(r.data) ELSE EmptyObject]

TransformInit ==
    /\ t_messages \in SeqsUpTo(TransformMessages, MaxBatchLen)
    /\ js_results = <<>>
    /\ js_i = 0
    /\ script_runs = 0
    /\ t_return = None
    /\ tpc = "called"

TransformIdle ==
    /\ t_messages = <<>>
    /\ js_results = <<>>
    /\ js_i = 0
    /\ script_runs = 0
    /\ t_return = None
    /\ tpc = "off"

\* deno.rs:91-93: an empty batch returns at once
TransformEmpty ==
    /\ tpc = "called"
    /\ t_messages = <<>>
    /\ t_return' = Some(TOk(<<>>))
    /\ tpc' = "returned"
    /\ UNCHANGED <<t_messages, js_results, js_i, script_runs>>
    /\ TransformFrame

\* deno.rs:96-128: the batch is serialized into the script and execute_script runs it
ExecuteScript ==
    /\ tpc = "called"
    /\ t_messages # <<>>
    /\ script_runs' = script_runs + 1
    /\ tpc' = "script"
    /\ UNCHANGED <<t_messages, js_results, js_i, t_return>>
    /\ TransformFrame

\* deno.rs:101-114: one turn of the script's loop
ScriptLoop ==
    /\ tpc = "script"
    /\ js_i < Len(t_messages)
    /\ js_results' = Append(js_results, ScriptPush(t_messages[js_i + 1]))
    /\ js_i' = js_i + 1
    /\ UNCHANGED <<t_messages, script_runs, t_return, tpc>>
    /\ TransformFrame

\* deno.rs:115-156: the script ends with JSON.stringify(results); the text is
\* parsed and the values are collected
ScriptReturns ==
    /\ tpc = "script"
    /\ js_i = Len(t_messages)
    /\ LET parsed == ParseResults(js_results) IN
       t_return' = IF IsSome(parsed)
                   THEN Some(TOk(CollectResults(Unwrap(parsed))))
                   ELSE Some(TErr("Failed to parse JavaScript batch results as JSON"))
    /\ tpc' = "returned"
    /\ UNCHANGED <<t_messages, js_results, js_i, script_runs>>
    /\ TransformFrame

TransformNext == TransformEmpty \/ ExecuteScript \/ ScriptLoop \/ ScriptReturns

\* the result a message has to get, whatever the other messages of the batch are
ResultFor(m) ==
    CASE m.does = "data" -> DataOf(m.id)
      [] m.does = "nodata" -> EmptyObject
      [] m.does = "false" -> Placeholder("rejected")
      [] m.does = "false_noerror" -> Placeholder("")
      [] m.does = "throws" -> Placeholder("Error: thrown")
      [] OTHER -> EmptyObject

\* C27: transform_messages_batch returns one result per input message, in
\* input order; an empty input returns an empty list without running the
\* script; a message whose transform throws or reports success=false gets a
\* placeholder at its own position and the other results are what they
\* would be without it.
C27_OneResultPerMessage ==
    tpc = "returned" =>
        /\ t_messages = <<>> => (t_return = Some(TOk(<<>>)) /\ script_runs = 0)
        /\ (\A i \in 1..Len(t_messages) : t_messages[i].does # "undefined")
               => Unwrap(t_return).ok
        /\ Unwrap(t_return).ok =>
               /\ Len(Unwrap(t_return).values) = Len(t_messages)
               /\ \A i \in 1..Len(t_messages) :
                      Unwrap(t_return).values[i] = ResultFor(t_messages[i])

\* A batch of three whose second transform throws: a placeholder between
\* the data of the first and of the third.
C27_Witness ==
    /\ tpc = "returned"
    /\ Len(t_messages) = 3
    /\ t_messages[2].does = "throws"
    /\ Unwrap(t_return).ok
    /\ Unwrap(t_return).values = <<DataOf(1), Placeholder("Error: thrown"), DataOf(2)>>
    /\ script_runs = 1

(***************************************************************************)
(*            THE BATCHER FED INSTANTLY, AND ITS CONSUMER                  *)
(***************************************************************************)

\* The number of items fed at most.
MaxFeed == 10

\* tests/deno_batch_transform_test.rs, test_adaptive_batch: adaptive_batch(s, 2, 1, 5, 100 ms)
\* over items that are all there: no await of the upstream takes time.
UnderTargetInit ==
    /\ params = [initial |-> 2, min |-> 1, max |-> 5]
    /\ source \in {Items(k) : k \in 0 .. MaxFeed}
    /\ upstream = source
    /\ batch_size = params.initial
    /\ batch = <<>>
    /\ start_size = params.initial
    /\ processing_time = 0
    /\ out = <<>>
    /\ sizes = <<>>
    /\ prev_size = params.initial
    /\ bpc = "loop"
    /\ timer = 0
    /\ collecting = 0
    /\ requested = TRUE
    /\ downstream = NoDownstream
    /\ wait_times = {0}

\* C28: from batch_size 2, min 1, max 5, with every collection within the
\* target, 10 items make the size follow 2, 3, 4, 5, 5; the yielded batches
\* hold the 10 items, only the last batch is partial, and the stream ends
\* after it.
C28_UnderTargetGrowth ==
    /\ [](Len(source) = 10 =>
            /\ IsPrefix(Append(sizes, batch_size), <<2, 3, 4, 5, 5>>)
            /\ \A i \in 1 .. (Len(out) - 1) : Len(out[i]) = sizes[i]
            /\ bpc = "done" =>
                   /\ Append(sizes, batch_size) = <<2, 3, 4, 5, 5>>
                   /\ Flatten(out) = source
                   /\ Len(out[Len(out)]) < sizes[Len(out)])
    /\ <>(bpc = "done")

\* The ten items came out as batches of 2, 3, 4 and 1 and the stream ended.
C28_Witness ==
    /\ Len(source) = 10
    /\ bpc = "done"
    /\ [i \in 1 .. Len(out) |-> Len(out[i])] = <<2, 3, 4, 1>>
    /\ batch_size = 5

\* C29: the adaptation depends on the time spent collecting the current
\* batch only: the timer restarts when the collection of a batch starts, so
\* the time the consumer takes between a batch and its request for the
\* next, and whether its work succeeded, never change batch_size.
C29_AdaptsOnCollectionTimeOnly ==
    [][ /\ (Len(out') = Len(out) + 1 =>
              /\ processing_time' = collecting
              /\ batch_size' =
                    IF collecting <= target_processing_time
                    THEN Min(batch_size + 1, params.max)
                    ELSE Max(batch_size \div 2, params.min))
        /\ (downstream' # downstream \/ (requested' /\ ~requested)) =>
              batch_size' = batch_size
        /\ (Len(out') = Len(out) => batch_size' = batch_size)
      ]_vars

\* The consumer took longer than the target over a batch and failed; the
\* next batch was collected in no time and the size went up by one.
C29_Witness ==
    /\ Len(out) >= 2
    /\ ~requested
    /\ downstream.time > target_processing_time
    /\ ~downstream.ok
    /\ processing_time = 0
    /\ batch_size = prev_size + 1

(***************************************************************************)
(*                             SPECIFICATIONS                              *)
(***************************************************************************)

InitPartition == PartInit /\ DecodeIdle /\ KafkaIdle /\ PoolIdle /\ FileIdle /\ BatchIdle /\ InsertIdle /\ CoerceIdle /\ FrameIdle /\ TransformIdle
NextPartition == PartNext
SpecPartition == InitPartition /\ [][NextPartition]_vars

InitBatcher == BatchInit /\ DecodeIdle /\ KafkaIdle /\ PoolIdle /\ PartIdle /\ FileIdle /\ InsertIdle /\ CoerceIdle /\ FrameIdle /\ TransformIdle
NextBatcher == BatchNext
SpecBatcher == InitBatcher /\ [][NextBatcher]_vars
\* The consumer keeps polling the batcher, so an enabled step is taken.
FairSpecBatcher == SpecBatcher /\ WF_vars(NextBatcher)

\* The batcher of the under-target scenario; its consumer keeps polling.
InitUnderTarget == UnderTargetInit /\ DecodeIdle /\ KafkaIdle /\ PoolIdle /\ PartIdle /\ FileIdle /\ InsertIdle /\ CoerceIdle /\ FrameIdle /\ TransformIdle
SpecUnderTarget == InitUnderTarget /\ [][NextBatcher]_vars
FairSpecUnderTarget == SpecUnderTarget /\ WF_vars(NextBatcher)

InitInsert == InsertInit /\ DecodeIdle /\ KafkaIdle /\ PoolIdle /\ PartIdle /\ FileIdle /\ BatchIdle /\ CoerceIdle /\ FrameIdle /\ TransformIdle
NextInsert == InsertNext
SpecInsert == InitInsert /\ [][NextInsert]_vars

\* The coercion match applied to one (declared type, JSON value) pair.
InitCoerce == CoerceInit /\ DecodeIdle /\ KafkaIdle /\ PoolIdle /\ PartIdle /\ FileIdle /\ BatchIdle /\ InsertIdle /\ FrameIdle /\ TransformIdle
NextCoerce == CoerceNext
SpecCoerce == InitCoerce /\ [][NextCoerce]_vars

\* Two concurrent callers of insert_data on one Pool.
InitInsertConc == InsertConcInit /\ DecodeIdle /\ KafkaIdle /\ PoolIdle /\ PartIdle /\ FileIdle /\ BatchIdle /\ CoerceIdle /\ FrameIdle /\ TransformIdle
SpecInsertConc == InitInsertConc /\ [][NextInsert]_vars

\* Two tasks call insert_data at the same time on a runtime of one or two
\* worker threads; a step of a call that can be taken is taken.
InitInsertThreads == InsertThreadsInit /\ DecodeIdle /\ KafkaIdle /\ PoolIdle /\ PartIdle /\ FileIdle /\ BatchIdle /\ CoerceIdle /\ FrameIdle /\ TransformIdle
SpecInsertThreads == InitInsertThreads /\ [][InsertThreadsNext]_vars
FairSpecInsertThreads ==
    SpecInsertThreads /\ \A c \in Callers : WF_vars(InsertThreadsStep(c))

\* The file pipeline from the reader task to the result of process_file.
InitFile == FileInit /\ DecodeIdle /\ KafkaIdle /\ PoolIdle /\ BatchIdle /\ InsertIdle /\ CoerceIdle /\ FrameIdle /\ TransformIdle
NextFile == FileNext
SpecFile == InitFile /\ [][NextFile]_vars
\* The spawned reader task, the orchestrator, the pool's workers and the
\* database keep running: each step that is due is taken, with either of
\* its outcomes.
\* The file pipeline with its cancellation: the reader task and the pool's
\* worker threads keep running whatever the orchestrator does.
InitFileCancel == FileCancelInit /\ DecodeIdle /\ KafkaIdle /\ PoolIdle /\ BatchIdle /\ InsertIdle /\ CoerceIdle /\ FrameIdle /\ TransformIdle
SpecFileCancel == InitFileCancel /\ [][FileCancelNext]_vars
FairSpecFileCancel ==
    /\ SpecFileCancel
    /\ WF_vars(ReaderOpen \/ ReaderOpenFails)
    /\ WF_vars(ReaderNext \/ ReaderFrameError \/ ReaderEnd)
    /\ WF_vars(ReaderSend \/ ReaderSendFails)
    /\ \A p \in Partitions : WF_vars(ScriptDiscarded(p))
    /\ WF_vars(DropPool)
    /\ \A w \in Workers : WF_vars(SendShutdown(w))
    /\ \A w \in Workers : WF_vars(PoolWorkerStops(w))
    /\ \A w \in Workers : WF_vars(JoinWorker(w))
    /\ WF_vars(ShutdownReturns)
InitFileLive == FileLiveInit /\ DecodeIdle /\ KafkaIdle /\ PoolIdle /\ BatchIdle /\ InsertIdle /\ CoerceIdle /\ FrameIdle /\ TransformIdle
FairSpecFile ==
    /\ InitFileLive /\ [][NextFile]_vars
    /\ WF_vars(ReaderOpen \/ ReaderOpenFails)
    /\ WF_vars(ReaderNext \/ ReaderFrameError \/ ReaderEnd)
    /\ WF_vars(ReaderSend \/ ReaderSendFails)
    /\ \A p \in Partitions : WF_vars(ConsumerRecv(p))
    /\ \A p \in Partitions : WF_vars(SubmitBatch(p) \/ ToJsonFails(p))
    /\ \A p \in Partitions : WF_vars(ScriptDone(p))
    /\ \A p \in Partitions : WF_vars(TakeResult(p))
    /\ WF_vars(InsertOk \/ InsertFails)
    /\ WF_vars(PipelineEnd)

\* The script runtime pool and the callers of execute.
InitPool == PoolInit /\ DecodeIdle /\ KafkaIdle /\ PartIdle /\ FileIdle /\ BatchIdle /\ InsertIdle /\ CoerceIdle /\ FrameIdle /\ TransformIdle
NextPool == PoolNext
SpecPool == InitPool /\ [][NextPool]_vars

\* The pool with worker threads that may panic; a call that can notice
\* its worker's death or take a free mailbox does so.
SpecPoolPanic == InitPool /\ [][PoolPanicNext]_vars
\* The pool with shutdown: the worker threads and the thread in shutdown
\* keep running.
SpecPoolShutdown == InitPool /\ [][PoolShutdownNext]_vars
FairSpecPoolShutdown ==
    /\ SpecPoolShutdown
    /\ \A w \in Workers : WF_vars(WorkerStart(w))
    /\ \A w \in Workers : WF_vars(WorkerFinish(w))
    /\ \A w \in Workers : WF_vars(SendShutdown(w))
    /\ \A w \in Workers : WF_vars(WorkerStops(w))
    /\ \A w \in Workers : WF_vars(JoinWorker(w))
    /\ WF_vars(ShutdownReturns)
FairSpecPoolPanic ==
    /\ SpecPoolPanic
    /\ \A id \in CallIds : WF_vars(SurfaceWorkerDied(id))
    /\ \A id \in CallIds : WF_vars(AcquireMailbox(id))

\* The broker consume loop.
InitKafka ==
    /\ KafkaInit /\ DecodeIdle /\ PartIdle /\ FileIdle /\ BatchIdle /\ InsertIdle /\ CoerceIdle
    /\ PoolIdle /\ FrameIdle /\ TransformIdle
SpecKafka == InitKafka /\ [][KafkaNext]_vars

\* decode_dynamic_message applied to one broker payload.
InitDecode ==
    /\ DecodeInit /\ KafkaIdle /\ PartIdle /\ FileIdle /\ BatchIdle /\ InsertIdle
    /\ CoerceIdle /\ PoolIdle /\ FrameIdle /\ TransformIdle
SpecDecode == InitDecode /\ [][DecodeNext]_vars

\* The frame reader over a written file, whole or cut short.
InitFrame ==
    /\ FrameInit /\ BatchIdle /\ CoerceIdle /\ DecodeIdle /\ FileIdle /\ InsertIdle /\ KafkaIdle /\ PartIdle /\ PoolIdle /\ TransformIdle
SpecFrame == InitFrame /\ [][FrameNext]_vars

\* transform_messages_batch applied to one batch.
InitTransform ==
    /\ TransformInit /\ BatchIdle /\ CoerceIdle /\ DecodeIdle /\ FileIdle /\ FrameIdle /\ InsertIdle /\ KafkaIdle /\ PartIdle /\ PoolIdle
SpecTransform == InitTransform /\ [][TransformNext]_vars

====
